---- MODULE Spec2Model ----
(***************************************************************************)
(* Live-captioning client: the WebSocketManager (transport channel and     *)
(* segment reconciliation), the AudioManager (capture pipeline) and the    *)
(* Room component that wires them together and owns the keyed transcript   *)
(* store.                                                                  *)
(*                                                                         *)
(* Conventions.                                                            *)
(*  - Timestamps are counted in half seconds, so 6 is 3.0 s and 7 is 3.5 s;*)
(*    NumberToString renders them as JavaScript renders the number.        *)
(*  - A string field that is absent (undefined, null) or empty is "": the  *)
(*    code only ever tests such fields for truthiness.  Undefined is used  *)
(*    where the value is passed through untested.                          *)
(*  - An object used as a map (translations) is [def, map]: def is FALSE   *)
(*    for undefined, map is a function from language codes to texts.       *)
(***************************************************************************)
EXTENDS Integers, Sequences, FiniteSets, TLC

\* ---------------------------------------------------------------- bounds
MaxSegId == 2
MaxTransId == 2
MaxConnects == 2
MaxPackets == 1
MaxTimers == 1
MaxPending == 2
MaxNumeric == 9
MaxStreak == 3
MaxSockets == 3

\* ------------------------------------------------------ program constants
MaxAttempts == 3

\* ----------------------------------------------------------- JS rendering
Undefined == "undefined"

\* String(n) for a timestamp n counted in half seconds.
NumberToString(t) ==
  IF t % 2 = 0 THEN ToString(t \div 2) ELSE ToString(t \div 2) \o ".5"

\* !isNaN(Number(s)) for the non-empty strings of the model: a decimal numeral.
IsNumeric(s) == \E n \in 0..MaxNumeric : ToString(n) = s
\* Number(s) for such a string.
ToNumber(s) == CHOOSE n \in 0..MaxNumeric : ToString(n) = s

EmptyMap == [l \in {} |-> ""]
NoTranslations == [def |-> FALSE, map |-> EmptyMap]
\* (t || {}) for a translations value t.
MapOrEmpty(t) == IF t.def THEN t.map ELSE EmptyMap

\* ------------------------------------------------------- input universes
SegIds == 1..MaxSegId
TransIds == 1..MaxTransId

\* The [timestamp, data] a server attaches to a finalized segment; data is a
\* TranscriptionData.
Payloads ==
  { [timestamp |-> 6, data |-> [uid |-> "5", text |-> "hello", client_name |-> "tien",
                                language |-> "en", completed |-> TRUE]],
    [timestamp |-> 7, data |-> [uid |-> "5", text |-> "bye", client_name |-> "",
                                language |-> Undefined, completed |-> FALSE]],
    [timestamp |-> 7, data |-> [uid |-> "1", text |-> "hello", client_name |-> "tien",
                                language |-> "en", completed |-> TRUE]],
    [timestamp |-> 6, data |-> [uid |-> "", text |-> "bye", client_name |-> "",
                                language |-> Undefined, completed |-> FALSE]] }

\* Elements of transcript.recent_segments.
Segments ==
  {[id |-> i, timestamp |-> p.timestamp, data |-> p.data] : i \in SegIds, p \in Payloads}

TranslationPayloads ==
  { [timestamp |-> 6, translations |-> [def |-> TRUE, map |-> ("es" :> "hola")]],
    [timestamp |-> 7, translations |-> [def |-> TRUE, map |-> ("es" :> "adios") @@ ("fr" :> "salut")]] }

\* Elements of multilingual_transcript.recent_segments.
TranslationEntries ==
  {[id |-> i, timestamp |-> p.timestamp, translations |-> p.translations] :
     i \in TransIds, p \in TranslationPayloads}

FirstSegment ==
  [id |-> 1, timestamp |-> 6,
   data |-> [uid |-> "5", text |-> "hello", client_name |-> "tien",
             language |-> "en", completed |-> TRUE]]
FirstTranslation ==
  [id |-> 1, timestamp |-> 6, translations |-> [def |-> TRUE, map |-> ("es" :> "hola")]]

\* Values of last_segments: absent, or an array whose first element is
\* [timestamp, data].
Live6 == << <<6, [uid |-> "", text |-> "hi", client_name |-> "tien", language |-> "en", completed |-> FALSE]>> >>
Live7 == << <<7, [uid |-> "", text |-> "hi th", client_name |-> "", language |-> Undefined, completed |-> FALSE]>> >>
LastSegments == {<<>>, Live6, Live7}

\* Inbound socket messages.  frame is "json" for a text frame holding a JSON
\* object, "binary" for an ArrayBuffer, "garbage" for text that does not parse,
\* "null" for the text null, which parses to the value null.
\* A JSON field that is absent is "" (strings), 0 (numbers), FALSE (the has*
\* flags of summary and transcript) or <<>> (arrays and nested objects).
NoMessage ==
  [ frame |-> "json", uid |-> "", status |-> "", message |-> "", backend |-> "",
    language |-> "", language_prob |-> 0,
    hasSummary |-> FALSE, summary |-> "",
    hasTranscript |-> FALSE, recent_segments |-> <<>>, multilingual |-> <<>>,
    last_segments |-> <<>>, available_languages |-> <<>> ]

\* A null element of recent_segments: reading its id throws a TypeError.
Null == [null |-> TRUE]

TranscriptMessage(segs, trans, last) ==
  [NoMessage EXCEPT !.hasTranscript = TRUE, !.recent_segments = segs,
                    !.multilingual = trans, !.last_segments = last]

\* ------------------------------------------- WebSocketManager: the engine
\* The loop without its "only process new segments" test.
RECURSIVE AppendNewSegments_NoDedup(_, _, _)
AppendNewSegments_NoDedup(log, seen, items) ==
  IF items = <<>> THEN [log |-> log, seen |-> seen, threw |-> FALSE]
  ELSE LET segment == Head(items) IN
       IF segment = Null THEN [log |-> log, seen |-> seen, threw |-> TRUE] ELSE
       AppendNewSegments_NoDedup(Append(log, <<segment.timestamp, segment.data>>),
                                 seen \cup {segment.id}, Tail(items))

\* for (const segment of recentSegments) { if (!ids.has(segment.id)) ... }
\* threw: the loop was left by an exception; what it had pushed stays.
RECURSIVE AppendNewSegments(_, _, _)
AppendNewSegments(log, seen, items) ==
  IF items = <<>> THEN [log |-> log, seen |-> seen, threw |-> FALSE]
  ELSE LET segment == Head(items) IN
       IF segment = Null THEN [log |-> log, seen |-> seen, threw |-> TRUE]
       ELSE IF segment.id \in seen
       THEN AppendNewSegments(log, seen, Tail(items))
       ELSE AppendNewSegments(Append(log, <<segment.timestamp, segment.data>>),
                              seen \cup {segment.id}, Tail(items))

\* for (const translation of recentTranslations) { ... }
RECURSIVE AppendNewTranslations(_, _, _)
AppendNewTranslations(log, seen, items) ==
  IF items = <<>> THEN [log |-> log, seen |-> seen, threw |-> FALSE]
  ELSE LET translation == Head(items) IN
       IF translation = Null THEN [log |-> log, seen |-> seen, threw |-> TRUE]
       ELSE IF translation.id \in seen
       THEN AppendNewTranslations(log, seen, Tail(items))
       ELSE AppendNewTranslations(Append(log, <<translation.timestamp, translation.translations>>),
                                  seen \cup {translation.id}, Tail(items))

\* The search taking the entry that arrived last among those that match.
FindTranslation_LastMatch(mlog, timestamp) ==
  LET hits == {i \in 1..Len(mlog) : mlog[i][1] = timestamp} IN
  IF hits = {} THEN NoTranslations
  ELSE mlog[CHOOSE i \in hits : \A j \in hits : i >= j][2]

\* this.multilingualTranscript.find(([transTime, _]) => transTime === timestamp)
FindTranslation(mlog, timestamp) ==
  LET hits == {i \in 1..Len(mlog) : mlog[i][1] = timestamp} IN
  IF hits = {} THEN NoTranslations
  ELSE mlog[CHOOSE i \in hits : \A j \in hits : i <= j][2]

\* The object updateUI hands to onTranscription for one finalized log entry.
FinalizedSegment(entry, mlog) ==
  LET timestamp == entry[1]
      segment == entry[2]
  IN [ id |-> IF segment.uid # "" THEN segment.uid
              ELSE "transcript-" \o NumberToString(timestamp),
       text |-> segment.text,
       timestamp |-> timestamp,
       name |-> IF segment.client_name # "" THEN segment.client_name ELSE "Unknown",
       completed |-> (segment.completed \/ TRUE),
       language |-> segment.language,
       translations |-> FindTranslation(mlog, timestamp) ]

\* The in-progress emission without the test of data.text.
LiveSegment_AnyText(lastSegment) ==
  IF lastSegment = <<>> THEN <<>>
  ELSE LET timestamp == lastSegment[1][1]
           data == lastSegment[1][2]
       IN << [ id |-> "in-progress-" \o NumberToString(timestamp),
               text |-> data.text,
               timestamp |-> timestamp,
               name |-> IF data.client_name # "" THEN data.client_name ELSE "Unknown",
               completed |-> FALSE,
               language |-> data.language,
               translations |-> [def |-> TRUE, map |-> EmptyMap] ] >>

\* The object updateUI hands to onTranscription for the in-progress segment,
\* as a sequence: empty when nothing is emitted.
LiveSegment(lastSegment) ==
  IF lastSegment = <<>> THEN <<>>
  ELSE LET timestamp == lastSegment[1][1]
           data == lastSegment[1][2]
       IN IF data.text = "" THEN <<>>
          ELSE << [ id |-> "in-progress-" \o NumberToString(timestamp),
                    text |-> data.text,
                    timestamp |-> timestamp,
                    name |-> IF data.client_name # "" THEN data.client_name ELSE "Unknown",
                    completed |-> FALSE,
                    language |-> data.language,
                    translations |-> [def |-> TRUE, map |-> EmptyMap] ] >>

\* The calls of onTranscription made by one updateUI, in order.
UpdateUI(w) ==
  [i \in 1..Len(w.transcript) |-> FinalizedSegment(w.transcript[i], w.multilingualTranscript)]
    \o LiveSegment(w.lastSegment)

\* The two loops with one set of seen ids for both logs: a translation whose
\* id a segment has had is taken for a duplicate.
StageSegments_SharedIds(w, m) ==
  LET t == AppendNewSegments(w.transcript, w.processedTranscriptIds, m.recent_segments)
      u == IF t.threw
           THEN [log |-> w.multilingualTranscript, seen |-> w.processedTranslationIds,
                 threw |-> FALSE]
           ELSE LET v == AppendNewTranslations(w.multilingualTranscript,
                                               w.processedTranslationIds \cup t.seen,
                                               m.multilingual)
                IN [v EXCEPT !.seen = @ \ (t.seen \ w.processedTranslationIds)]
  IN [t |-> t, u |-> u]

\* The two loops of processSegments, inside its try block: the second runs
\* only if the first was not left by an exception.
StageSegments(w, m) ==
  LET t == AppendNewSegments(w.transcript, w.processedTranscriptIds, m.recent_segments)
      u == IF t.threw
           THEN [log |-> w.multilingualTranscript, seen |-> w.processedTranslationIds,
                 threw |-> FALSE]
           ELSE AppendNewTranslations(w.multilingualTranscript, w.processedTranslationIds,
                                      m.multilingual)
  IN [t |-> t, u |-> u]

\* The try block of processSegments reaches its call of updateUI.
PassCompletes(w, m) ==
  LET st == StageSegments(w, m) IN ~st.t.threw /\ ~st.u.threw

\* processSegments up to the call of updateUI: the manager's fields afterwards.
ProcessSegments(w, m) ==
  LET st == StageSegments(w, m)
  IN [w EXCEPT !.availableLanguages = m.available_languages,
               !.transcript = st.t.log, !.processedTranscriptIds = st.t.seen,
               !.multilingualTranscript = st.u.log, !.processedTranslationIds = st.u.seen,
               !.lastSegment = IF PassCompletes(w, m) THEN m.last_segments ELSE @]

\* ------------------------------------------------ Room: the keyed store
\* State of the Room component at its first render with a configuration.
\* transcriptKeys holds the keys of transcriptMap that are not array indices,
\* in the order they were added to the object.
InitRoom ==
  [ status |-> "disconnected", isRecording |-> FALSE,
    transcriptMap |-> EmptyMap, transcriptKeys |-> <<>>, globalTranscriptId |-> "",
    latestTranscriptData |-> <<>>, newestTranscriptId |-> "",
    detectedLanguage |-> "", availableLanguages |-> <<>>,
    connectionError |-> "", connectionAttempts |-> 0,
    meetingSummary |-> "" ]

\* The callbacks are created once, by the effect that depends on [config]:
\* the state they read without an updater is the state of that render.
Captured == InitRoom

\* The update without the special handling of translations: the incoming
\* segment replaces the entry.
MergeSegment_Overwrite(existing, data) == data

\* { ...existingTranscript, ...data, translations: { ...old, ...new } }
MergeSegment(existing, data) ==
  [data EXCEPT !.translations =
     [def |-> TRUE, map |-> MapOrEmpty(data.translations) @@ MapOrEmpty(existing.translations)]]

\* The update that adds new ids only and leaves an existing entry as it is.
WriteSegment_KeepExisting(map, data) ==
  IF data.id \in DOMAIN map THEN map ELSE (data.id :> data) @@ map

\* setTranscriptMap(prev => ...)
WriteSegment(map, data) ==
  IF data.id \in DOMAIN map
  THEN [map EXCEPT ![data.id] = MergeSegment(map[data.id], data)]
  ELSE (data.id :> data) @@ map

\* The test that lets only numeric ids advance the identifier.
AdvancesGlobalId_NumericOnly(current, id) ==
  /\ IsNumeric(id)
  /\ current = "" \/ (IsNumeric(current) /\ ToNumber(id) > ToNumber(current))

\* if (!globalTranscriptId || (numeric && numeric && greater)) as the callback
\* evaluates it.
AdvancesGlobalId(current, id) ==
  \/ current = ""
  \/ /\ IsNumeric(id)
     /\ IsNumeric(current)
     /\ ToNumber(id) > ToNumber(current)

\* wsManagerRef.current.onTranscription
OnTranscription(r, data) ==
  IF data.id = "" THEN r
  ELSE [r EXCEPT !.newestTranscriptId = data.id,
                 !.latestTranscriptData = <<data>>,
                 !.globalTranscriptId =
                     IF AdvancesGlobalId(Captured.globalTranscriptId, data.id)
                     THEN data.id ELSE @,
                 !.transcriptMap = WriteSegment(@, data),
                 !.transcriptKeys =
                     IF data.id \in DOMAIN r.transcriptMap \/ IsNumeric(data.id) THEN @
                     ELSE Append(@, data.id)]

RECURSIVE ApplyTranscriptions(_, _)
ApplyTranscriptions(r, calls) ==
  IF calls = <<>> THEN r
  ELSE ApplyTranscriptions(OnTranscription(r, Head(calls)), Tail(calls))

\* ------------------------------------------------- Room: the derived views
\* The elements of a sequence.
Range(q) == {q[i] : i \in 1..Len(q)}

\* The elements of a set of numbers in ascending order.
Ascending(S) ==
  [p \in 1..Cardinality(S) |-> CHOOSE x \in S : Cardinality({y \in S : y <= x}) = p]

\* The order in which the keys of an object are enumerated: the keys that are
\* array indices in ascending numeric order, then the other keys in the order
\* they were added.
JsKeyOrder(keys, added) ==
  LET Other(k) == ~IsNumeric(k)
      indices == {ToNumber(k) : k \in {x \in keys : IsNumeric(x)}}
  IN [p \in 1..Cardinality(indices) |-> ToString(Ascending(indices)[p])]
       \o SelectSeq(added, Other)

\* Array.prototype.sort with a comparator key(a) - key(b), where key[i] is the
\* key of q[i]: elements with equal keys keep their order.
StableSort(q, key) ==
  LET Rank(i) == Cardinality({j \in 1..Len(q) :
                    \/ key[j] < key[i]
                    \/ key[j] = key[i] /\ j <= i})
  IN [p \in 1..Len(q) |-> q[CHOOSE i \in 1..Len(q) : Rank(i) = p]]

\* (a, b) => (a.timestamp || 0) - (b.timestamp || 0)
TimestampOf(t) == t.timestamp
SortByTimestamp(q) == StableSort(q, [i \in 1..Len(q) |-> TimestampOf(q[i])])

\* Object.values(transcriptMap)
ObjectValues(r) ==
  LET keys == JsKeyOrder(DOMAIN r.transcriptMap, r.transcriptKeys)
  IN [i \in 1..Len(keys) |-> r.transcriptMap[keys[i]]]

\* t => t.timestamp && t.text
IsShown(t) == t.timestamp # 0 /\ t.text # ""

\* const transcripts = useMemo(...)
Transcripts(r) == SortByTimestamp(SelectSeq(ObjectValues(r), IsShown))

\* transcript.name || 'Unknown'
SpeakerOf(t) == IF t.name # "" THEN t.name ELSE "Unknown"

\* The elements of a sequence in the order of their first occurrence.
Distinct(q) ==
  LET first == {i \in 1..Len(q) : \A j \in 1..(i-1) : q[j] # q[i]}
  IN [p \in 1..Cardinality(first) |-> q[Ascending(first)[p]]]

FirstTimestampOf(thread) == thread.segments[1].timestamp

\* const conversationThreads = useMemo(...)
ConversationThreads(r, cfg) ==
  LET validTranscripts == SortByTimestamp(SelectSeq(Transcripts(r), IsShown))
      names == Distinct([i \in 1..Len(validTranscripts) |-> SpeakerOf(validTranscripts[i])])
      speakers == JsKeyOrder(Range(names), names)
      Thread(speaker) ==
        LET Says(t) == SpeakerOf(t) = speaker
            segments == SelectSeq(validTranscripts, Says)
        IN [ speaker |-> speaker, isUser |-> speaker = cfg.username,
             segments |-> segments,
             lastTimestamp |-> segments[Len(segments)].timestamp ]
      threads == [i \in 1..Len(speakers) |-> Thread(speakers[i])]
  IN StableSort(threads, [i \in 1..Len(threads) |-> FirstTimestampOf(threads[i])])

\* wsManagerRef.current.onAvailableLanguagesChange (language selection aside)
OnAvailableLanguagesChange(r, languages) ==
  [r EXCEPT !.availableLanguages = languages]

\* wsManagerRef.current.onSummary
OnSummary(r, summary) ==
  IF summary # "" THEN [r EXCEPT !.meetingSummary = summary] ELSE r

\* ----------------------------------------------------------- AudioManager
\* Fields of a constructed AudioManager; a TRUE field holds an object.
\* foreign: a node the manager holds was created by another AudioContext than
\* the one it holds.
InitAudio ==
  [ stream |-> FALSE, audioContext |-> FALSE, microphone |-> FALSE,
    processor |-> FALSE, isRecording |-> FALSE, foreign |-> FALSE ]

\* AudioManager.start, which has no try block: the manager afterwards, the
\* value returned (ok) and whether an exception leaves the method (threw).
\* connect() throws an InvalidAccessError when the two nodes belong to
\* different contexts, before isRecording is set.
AudioStart(a) ==
  IF ~a.microphone \/ ~a.processor \/ ~a.audioContext
  THEN [audio |-> a, ok |-> FALSE, threw |-> FALSE]
  ELSE IF a.foreign
  THEN [audio |-> a, ok |-> FALSE, threw |-> TRUE]
  ELSE [audio |-> [a EXCEPT !.isRecording = TRUE], ok |-> TRUE, threw |-> FALSE]

\* stop() as a switch: it starts capture when capture is off.
AudioStop_Toggle(a) == [a EXCEPT !.isRecording = ~@]

AudioStop(a) ==
  IF ~a.isRecording THEN a ELSE [a EXCEPT !.isRecording = FALSE]

AudioCleanup(a) ==
  [AudioStop(a) EXCEPT !.stream = FALSE, !.audioContext = FALSE,
                       !.microphone = FALSE, !.processor = FALSE,
                       !.foreign = FALSE]

\* ----------------------------------------------------------------- state
VARIABLES
  phase,      \* "loaded": rendered with a configuration, effect not yet run;
              \* "mounted": effect has run; "left": the effect's cleanup has run
  config,     \* the configuration read from session storage
  ws,         \* fields of the WebSocketManager
  sockets,    \* the WebSocket objects created so far, in order of creation
  room,       \* state of the Room component
  audio,      \* fields of the AudioManager
  initPending,\* the calls of initialize() that are awaiting the device
  timers,     \* pending retry timeouts
  event,      \* the last event dispatched: its kind and, for a message event,
              \* the message handed to handleMessage
  reported,   \* the statuses passed to onStatusChange during the last step
  errorStreak,\* history: statuses "error" reported since the last "connected"
  replay,     \* a second session [ws, room], fed the same events in another order
  script      \* the events of the two sessions and the position in them

vars == <<phase, config, ws, sockets, room, audio, initPending, timers,
          event, reported, errorStreak,
          replay, script>>

\* Fields of a constructed WebSocketManager (socket 0 is null).
InitWs ==
  [ uid |-> "abc", socket |-> 0, packetCount |-> 0, serverBackend |-> "",
    transcript |-> <<>>, multilingualTranscript |-> <<>>, lastSegment |-> <<>>,
    availableLanguages |-> <<>>, meetingSummary |-> "",
    processedTranscriptIds |-> {}, processedTranslationIds |-> {} ]

\* Hosts of the configuration; the WebSocket constructor throws a SyntaxError
\* for a URL that does not parse, which a host with a stray percent sign makes
\* it in every runtime.
Hosts == {"localhost", "example.com", "bad%host"}
ConstructorThrows(cfg) == cfg.serverUrl = "bad%host"

\* The configurations the form stores: one per host.
Configs ==
  {[serverUrl |-> h, serverPort |-> "9090", model |-> "large-v2", useVad |-> TRUE,
    username |-> "tien"] : h \in Hosts}
ConfigFor(h) == CHOOSE c \in Configs : c.serverUrl = h

\* String.prototype.includes
Includes(str, part) ==
  \E i \in 1..(Len(str) - Len(part) + 1) : SubSeq(str, i, i + Len(part) - 1) = part

\* The URL connect() hands to the WebSocket constructor.
Url(cfg) ==
  IF Includes(cfg.serverUrl, "localhost") \/ Includes(cfg.serverUrl, "127.0.0.1")
  THEN "ws://" \o cfg.serverUrl \o ":" \o cfg.serverPort
  ELSE "wss://" \o cfg.serverUrl \o ":" \o cfg.serverPort

\* What is handed to socket.send: the handshake, the disconnect notice, an
\* audio frame.
Handshake(w, cfg) ==
  [ type |-> "handshake", uid |-> w.uid, name |-> cfg.username, language |-> "en",
    task |-> "transcribe", model |-> cfg.model, use_vad |-> cfg.useVad,
    max_clients |-> 4, max_connection_time |-> 6000 ]
DisconnectNotice(w) == [type |-> "disconnect", uid |-> w.uid]
AudioFrame == [type |-> "audio"]

\* What the callbacks act on: the component state, the audio manager, the
\* pending timeouts and the statuses reported so far in this step.
Page(r, a, t) == [room |-> r, audio |-> a, timers |-> t, reported |-> <<>>]

\* The branch for connected without the reset of the counter.
OnConnected_KeepAttempts(r) == [r EXCEPT !.connectionError = ""]

\* The branch for connected without the clearing of the connection error.
OnConnected_KeepError(r) == [r EXCEPT !.connectionAttempts = 0]

\* else if (newStatus === 'connected') { ... }
OnConnected(r) == [r EXCEPT !.connectionError = "", !.connectionAttempts = 0]

\* The callback without the setTimeout of the error branch.
OnStatusChange_NoRetry(p, newStatus) ==
  LET r1 == [p.room EXCEPT !.status = newStatus]
      stops == newStatus \in {"error", "disconnected"} /\ Captured.isRecording
      a2 == IF stops THEN AudioStop(p.audio) ELSE p.audio
      r2 == IF stops THEN [r1 EXCEPT !.isRecording = FALSE] ELSE r1
      attempts == Captured.connectionAttempts + 1
      r3 == CASE newStatus = "error" ->
                   [r2 EXCEPT !.connectionAttempts = attempts,
                              !.connectionError =
                                 "Connection attempt " \o ToString(attempts) \o " failed."]
              [] newStatus = "connected" -> OnConnected(r2)
              [] newStatus = "waiting" ->
                   [r2 EXCEPT !.connectionError = "Server is at capacity."]
              [] OTHER -> r2
  IN [ room |-> r3, audio |-> a2, timers |-> p.timers,
       reported |-> Append(p.reported, newStatus) ]

\* wsManagerRef.current.onStatusChange
OnStatusChange(p, newStatus) ==
  LET r1 == [p.room EXCEPT !.status = newStatus]
      stops == newStatus \in {"error", "disconnected"} /\ Captured.isRecording
      a2 == IF stops THEN AudioStop(p.audio) ELSE p.audio
      r2 == IF stops THEN [r1 EXCEPT !.isRecording = FALSE] ELSE r1
      attempts == Captured.connectionAttempts + 1
      retries == newStatus = "error" /\ attempts < MaxAttempts
      r3 == CASE newStatus = "error" ->
                   [r2 EXCEPT !.connectionAttempts = attempts,
                              !.connectionError =
                                 IF attempts >= MaxAttempts
                                 THEN "Failed to connect to server after "
                                        \o ToString(attempts) \o " attempts."
                                 ELSE "Connection attempt " \o ToString(attempts)
                                        \o " failed. Retrying..."]
              [] newStatus = "connected" -> OnConnected(r2)
              [] newStatus = "waiting" ->
                   [r2 EXCEPT !.connectionError = "Server is at capacity."]
              [] OTHER -> r2
  IN [ room |-> r3, audio |-> a2,
       timers |-> IF retries THEN p.timers + 1 ELSE p.timers,
       reported |-> Append(p.reported, newStatus) ]

\* The retry counter a reader of the status stream would keep.
StreakAfter(n, statuses) ==
  LET F[i \in 0..Len(statuses)] ==
        IF i = 0 THEN n
        ELSE IF statuses[i] = "error" THEN F[i-1] + 1
        ELSE IF statuses[i] = "connected" THEN 0
        ELSE F[i-1]
  IN F[Len(statuses)]

\* WebSocketManager.connect: the manager, the sockets and the page afterwards,
\* the value returned (ok) and whether an exception leaves the method (threw):
\* the one the constructor throws is caught by the catch of connect.
Connect(w, socks, p, cfg) ==
  LET p1 == OnStatusChange(p, "connecting") IN
  IF ConstructorThrows(cfg)
  THEN [ws |-> w, sockets |-> socks, page |-> OnStatusChange(p1, "error"),
        ok |-> FALSE, threw |-> FALSE]
  ELSE [ws |-> [w EXCEPT !.socket = Len(socks) + 1, !.packetCount = 0],
        sockets |-> Append(socks, [readyState |-> "CONNECTING", sent |-> <<>>,
                                   url |-> Url(cfg), established |-> FALSE]),
        page |-> p1, ok |-> TRUE, threw |-> FALSE]

\* this.socket?.readyState === WebSocket.OPEN
SocketIsOpen(w, socks) == w.socket # 0 /\ socks[w.socket].readyState = "OPEN"

\* socket.send throws an InvalidStateError on a socket that is still
\* connecting; on a closing or closed socket it discards the data.
SendThrows(sock) == sock.readyState = "CONNECTING"

\* this.socket.send(x)
Send(w, socks, x) == [socks EXCEPT ![w.socket].sent = Append(@, x)]

\* WebSocketManager.handleOpen
HandleOpen(w, socks, cfg) ==
  IF SocketIsOpen(w, socks) THEN Send(w, socks, Handshake(w, cfg)) ELSE socks

\* The dispatch with a warning handled as an error is.
HandleStatusMessages_WarningAsError(p, m) ==
  CASE m.status = "WAIT" -> OnStatusChange(p, "waiting")
    [] m.status \in {"ERROR", "WARNING"} -> OnStatusChange(p, "error")
    [] OTHER -> p

\* WebSocketManager.handleStatusMessages
HandleStatusMessages(p, m) ==
  CASE m.status = "WAIT" -> OnStatusChange(p, "waiting")
    [] m.status = "ERROR" -> OnStatusChange(p, "error")
    [] OTHER -> p

\* The identity test with the comparison dropped: nothing is a mismatch.
IdentityMismatch_Never(w, m) == FALSE

\* if (data.uid && data.uid !== this.uid)
IdentityMismatch(w, m) == m.uid # "" /\ m.uid # w.uid

\* The handler with the four early branches not returning: after the branch
\* that matched, the summary and the transcript of the message are handled.
HandleMessageBody_FallThrough(w, p, m) ==
  CASE m.frame = "null" -> [ws |-> w, page |-> p, threw |-> TRUE]
    [] m.frame # "json" -> [ws |-> w, page |-> p, threw |-> FALSE]
    [] IdentityMismatch(w, m) -> [ws |-> w, page |-> p, threw |-> FALSE]
    [] OTHER ->
         LET w0 == IF m.status = "" /\ m.message = "SERVER_READY"
                   THEN [w EXCEPT !.serverBackend = m.backend] ELSE w
             p0 == CASE m.status # "" -> HandleStatusMessages(p, m)
                     [] m.message = "DISCONNECT" -> OnStatusChange(p, "disconnected")
                     [] m.message = "SERVER_READY" -> OnStatusChange(p, "connected")
                     [] m.language # "" /\ m.language_prob # 0 ->
                          [p EXCEPT !.room.detectedLanguage = m.language]
                     [] OTHER -> p
             w1 == IF m.hasSummary THEN [w0 EXCEPT !.meetingSummary = m.summary] ELSE w0
             p1 == IF m.hasSummary THEN [p0 EXCEPT !.room = OnSummary(@, m.summary)] ELSE p0
             w2 == IF m.hasTranscript THEN ProcessSegments(w1, m) ELSE w1
             p2 == IF m.hasTranscript
                   THEN [p1 EXCEPT !.room =
                           ApplyTranscriptions(
                             OnAvailableLanguagesChange(@, m.available_languages),
                             IF PassCompletes(w1, m) THEN UpdateUI(w2) ELSE <<>>)]
                   ELSE p1
         IN [ws |-> w2, page |-> p2, threw |-> FALSE]

\* The statements inside the outer try block of handleMessage: the manager
\* and the page when the block is left, and whether it is left by an
\* exception (threw).  Reading data.uid of the value null throws a TypeError;
\* what the parser throws is caught by the inner try, and what processSegments
\* throws by its own.
HandleMessageBody(w, p, m) ==
  CASE m.frame = "null" -> [ws |-> w, page |-> p, threw |-> TRUE]
    [] m.frame # "json" -> [ws |-> w, page |-> p, threw |-> FALSE]
    [] IdentityMismatch(w, m) -> [ws |-> w, page |-> p, threw |-> FALSE]
    [] m.status # "" -> [ws |-> w, page |-> HandleStatusMessages(p, m), threw |-> FALSE]
    [] m.message = "DISCONNECT" ->
         [ws |-> w, page |-> OnStatusChange(p, "disconnected"), threw |-> FALSE]
    [] m.message = "SERVER_READY" ->
         [ws |-> [w EXCEPT !.serverBackend = m.backend],
          page |-> OnStatusChange(p, "connected"), threw |-> FALSE]
    [] m.language # "" /\ m.language_prob # 0 ->
         [ws |-> w, page |-> [p EXCEPT !.room.detectedLanguage = m.language],
          threw |-> FALSE]
    [] OTHER ->
         LET w1 == IF m.hasSummary THEN [w EXCEPT !.meetingSummary = m.summary] ELSE w
             p1 == IF m.hasSummary THEN [p EXCEPT !.room = OnSummary(@, m.summary)] ELSE p
             w2 == IF m.hasTranscript THEN ProcessSegments(w1, m) ELSE w1
             p2 == IF m.hasTranscript
                   THEN [p1 EXCEPT !.room =
                           ApplyTranscriptions(
                             OnAvailableLanguagesChange(@, m.available_languages),
                             IF PassCompletes(w1, m) THEN UpdateUI(w2) ELSE <<>>)]
                   ELSE p1
         IN [ws |-> w2, page |-> p2, threw |-> FALSE]

\* handleMessage without its outer try block.
HandleMessage_NoCatch(w, p, m) == HandleMessageBody(w, p, m)

\* WebSocketManager.handleMessage: the outer catch logs the exception and the
\* handler returns.
HandleMessage(w, p, m) ==
  [HandleMessageBody(w, p, m) EXCEPT !.threw = FALSE]

\* WebSocketManager.handleError
HandleError(p) == OnStatusChange(p, "error")

\* The close handler that reports the status and keeps the logs.
HandleClose_KeepLogs(w, p) ==
  [ws |-> w, page |-> OnStatusChange(p, "disconnected")]

\* WebSocketManager.handleClose: the manager and the page afterwards.
HandleClose(w, p) ==
  [ws |-> [w EXCEPT !.transcript = <<>>, !.multilingualTranscript = <<>>,
                    !.lastSegment = <<>>],
   page |-> OnStatusChange(p, "disconnected")]

\* sendAudio testing only that a socket exists, not that it is open.
SendAudio_AnySocket(w, socks) ==
  IF w.socket = 0
  THEN [ws |-> w, sockets |-> socks, ok |-> FALSE]
  ELSE [ws |-> [w EXCEPT !.packetCount = @ + 1],
        sockets |-> Send(w, socks, AudioFrame), ok |-> TRUE]

\* WebSocketManager.sendAudio
SendAudio(w, socks) ==
  IF ~SocketIsOpen(w, socks)
  THEN [ws |-> w, sockets |-> socks, ok |-> FALSE]
  ELSE [ws |-> [w EXCEPT !.packetCount = @ + 1],
        sockets |-> Send(w, socks, AudioFrame), ok |-> TRUE]

\* WebSocketManager.disconnect, which has no try block: threw is whether its
\* send throws.  close() without arguments throws in no state of the socket.
Disconnect(w, socks) ==
  LET sends == SocketIsOpen(w, socks)
      s1 == IF sends THEN Send(w, socks, DisconnectNotice(w)) ELSE socks
      s2 == IF w.socket # 0 /\ s1[w.socket].readyState \in {"CONNECTING", "OPEN"}
            THEN [s1 EXCEPT ![w.socket].readyState = "CLOSING"] ELSE s1
  IN [ws |-> [w EXCEPT !.socket = 0], sockets |-> s2,
      threw |-> sends /\ SendThrows(socks[w.socket])]

\* ------------------------------------------------ messages of the full model
ServerReady == [NoMessage EXCEPT !.message = "SERVER_READY", !.backend = "faster_whisper"]

\* Messages of the connection protocol.
ControlMessages ==
  { [NoMessage EXCEPT !.status = "WAIT"],
    [NoMessage EXCEPT !.status = "ERROR", !.uid = "abc"],
    [NoMessage EXCEPT !.message = "DISCONNECT"],
    ServerReady }

\* Frames that hold no JSON object.
OtherFrames == {[NoMessage EXCEPT !.frame = f] : f \in {"binary", "garbage", "null"}}

Messages ==
  ControlMessages
    \cup {TranscriptMessage(<<FirstSegment>>, <<FirstTranslation>>, Live6)}
    \cup {[NoMessage EXCEPT !.frame = "null"]}

\* ---------------------------------------------------------------- actions
NoScript == [pc |-> 0, pre |-> NoMessage, seg |-> FirstSegment, tr |-> FirstTranslation]

Min(a, b) == IF a < b THEN a ELSE b

\* What every step does with the page a handler leaves behind.  Once the
\* component has unmounted its state setters change nothing: the callbacks
\* still run, set timeouts and act on the two managers.
Commit(p, e) ==
  /\ p.timers <= MaxTimers
  /\ room' = IF phase = "left" THEN room ELSE p.room
  /\ audio' = p.audio
  /\ timers' = p.timers
  /\ reported' = p.reported
  /\ errorStreak' = Min(StreakAfter(errorStreak, p.reported), MaxStreak)
  /\ event' = e

\* fault: an exception left the method the step called.  result: what the
\* call returned or how it ended, where that is looked at.  prev: for a call
\* made on the AudioManager alone, the kind of the event before it.
Event(kind) ==
  [kind |-> kind, socket |-> 0, msg |-> NoMessage, fault |-> FALSE,
   result |-> "", prev |-> ""]

\* The state once the page has read one of the configurations cfgs.
Loaded(cfgs) ==
  /\ phase = "loaded"
  /\ config \in cfgs
  /\ ws = InitWs
  /\ sockets = <<>>
  /\ room = InitRoom
  /\ audio = InitAudio
  /\ initPending = 0
  /\ timers = 0
  /\ event = Event("render")
  /\ reported = <<>>
  /\ errorStreak = 0
  /\ replay = [ws |-> InitWs, room |-> InitRoom]
  /\ script = NoScript

Init == Loaded(Configs)

\* The effect that runs once the configuration is loaded: creates the manager,
\* wires the callbacks, connects, creates the AudioManager and starts its
\* initialize().
Mount ==
  /\ phase = "loaded"
  /\ LET p0 == Page([room EXCEPT !.status = "connecting"], AudioCleanup(InitAudio), timers)
         c == Connect(InitWs, sockets, p0, config)
     IN /\ ws' = c.ws
        /\ sockets' = c.sockets
        /\ Commit(c.page, [Event("mount") EXCEPT !.fault = c.threw])
  /\ phase' = "mounted"
  /\ initPending' = initPending + 1
  /\ UNCHANGED <<config, replay, script>>

\* How initialize() can end once getUserMedia has answered.
InitializeOutcomes == {"granted", "denied", "unsupported", "no source", "no processor"}

\* initialize() from its await on: the fields of the AudioManager when it
\* returns.  The device is granted and the graph is built; access is denied;
\* the browser has no AudioContext; createMediaStreamSource throws;
\* createScriptProcessor throws.  Each assignment replaces what an earlier
\* call of initialize() has left in the field, and a field not reached keeps
\* it: a node kept next to a new context is foreign to that context.
AudioInitialize(a, outcome) ==
  CASE outcome = "granted" ->
         [a EXCEPT !.stream = TRUE, !.audioContext = TRUE,
                   !.microphone = TRUE, !.processor = TRUE, !.foreign = FALSE]
    [] outcome = "unsupported" -> [a EXCEPT !.stream = TRUE]
    [] outcome = "no source" ->
         [a EXCEPT !.stream = TRUE, !.audioContext = TRUE,
                   !.foreign = a.microphone \/ a.processor]
    [] outcome = "no processor" ->
         [a EXCEPT !.stream = TRUE, !.audioContext = TRUE, !.microphone = TRUE,
                   !.foreign = a.processor]
    [] OTHER -> a

\* initialize() resumes after getUserMedia and the component is told how it
\* ended.
InitializeDone(outcome) ==
  /\ initPending > 0
  /\ initPending' = initPending - 1
  /\ LET a == AudioInitialize(audio, outcome)
         r == IF outcome = "granted" THEN room
              ELSE [room EXCEPT !.connectionError = "Failed to access microphone."]
     IN Commit([Page(r, a, timers) EXCEPT !.reported = <<>>],
               [Event("initialized") EXCEPT !.result = outcome])
  /\ UNCHANGED <<phase, config, ws, sockets, replay, script>>

\* The socket's open event.
SocketOpen(i) ==
  /\ sockets[i].readyState = "CONNECTING"
  /\ sockets' = HandleOpen(ws, [sockets EXCEPT ![i].readyState = "OPEN",
                                               ![i].established = TRUE], config)
  /\ Commit(Page(room, audio, timers), [Event("open") EXCEPT !.socket = i])
  /\ UNCHANGED <<phase, config, ws, initPending, replay, script>>

\* A message event of an open socket.
SocketMessage(i, m) ==
  /\ sockets[i].readyState = "OPEN"
  /\ LET h == HandleMessage(ws, Page(room, audio, timers), m)
     IN /\ ws' = h.ws
        /\ Commit(h.page, [Event("message") EXCEPT !.socket = i, !.msg = m,
                                                   !.fault = h.threw])
  /\ UNCHANGED <<phase, config, sockets, initPending, replay, script>>

\* close() was called on the socket before its connection was established:
\* the browser fails the connection instead of running a closing handshake.
ClosedWhileConnecting(sock) == sock.readyState = "CLOSING" /\ ~sock.established

\* The connection fails: the socket's error event, then its close event.  A
\* socket closed while it was connecting always ends this way, and the closing
\* handshake of an established one can.
SocketFail(i) ==
  /\ sockets[i].readyState \in {"CONNECTING", "OPEN", "CLOSING"}
  /\ sockets' = [sockets EXCEPT ![i].readyState = "CLOSED"]
  /\ LET h == HandleClose(ws, HandleError(Page(room, audio, timers)))
     IN /\ ws' = h.ws
        /\ Commit(h.page, [Event("fail") EXCEPT !.socket = i])
  /\ UNCHANGED <<phase, config, initPending, replay, script>>

\* The connection closes (by the server, or completing a close()): the
\* socket's close event.
SocketClose(i) ==
  /\ sockets[i].readyState \in {"OPEN", "CLOSING"}
  /\ ~ClosedWhileConnecting(sockets[i])
  /\ sockets' = [sockets EXCEPT ![i].readyState = "CLOSED"]
  /\ LET h == HandleClose(ws, Page(room, audio, timers))
     IN /\ ws' = h.ws
        /\ Commit(h.page, [Event("close") EXCEPT !.socket = i])
  /\ UNCHANGED <<phase, config, initPending, replay, script>>

\* A retry timeout set by onStatusChange expires, while fewer than limit
\* sockets have been created.
RetryWithin(limit) ==
  /\ timers > 0
  /\ ConstructorThrows(config) \/ Len(sockets) < limit
  /\ LET p == Page(room, audio, timers - 1)
         c == IF Captured.status # "connected"
              THEN Connect(ws, sockets, p, config)
              ELSE [ws |-> ws, sockets |-> sockets, page |-> p,
                    ok |-> FALSE, threw |-> FALSE]
     IN /\ ws' = c.ws
        /\ sockets' = c.sockets
        /\ Commit(c.page, [Event("timer") EXCEPT !.fault = c.threw])
  /\ UNCHANGED <<phase, config, initPending, replay, script>>

RetryTimer == RetryWithin(MaxConnects)

\* The "Retry connection" control is rendered.
RetryOffered ==
  /\ phase \in {"mounted", "leaving"}
  /\ room.connectionError # ""
  /\ room.status = "error"
  /\ room.connectionAttempts >= MaxAttempts

\* The mic button, enabled only while the status is connected; it stays
\* rendered after leaveRoom() until the navigation unmounts the page.
ToggleRecording ==
  /\ phase \in {"mounted", "leaving"}
  /\ room.status = "connected"
  /\ IF room.isRecording
     THEN Commit(Page([room EXCEPT !.isRecording = FALSE], AudioStop(audio), timers),
                 Event("toggle"))
     ELSE LET s == AudioStart(audio) IN
          Commit(Page(CASE s.threw -> room
                        [] s.ok -> [room EXCEPT !.isRecording = TRUE]
                        [] OTHER ->
                             [room EXCEPT !.connectionError = "Failed to start recording."],
                      s.audio, timers),
                 [Event("toggle") EXCEPT !.fault = s.threw])
  /\ UNCHANGED <<phase, config, ws, sockets, initPending, replay, script>>

\* handleAudioProcess without its test of isRecording: every buffer is handed
\* to the callback.
HandleAudioProcess_Unchecked(a, w, socks) == SendAudio(w, socks)

\* AudioManager.handleAudioProcess, and the callback given to the AudioManager
\* by the page, which calls sendAudio.
HandleAudioProcess(a, w, socks) ==
  IF a.isRecording THEN SendAudio(w, socks)
  ELSE [ws |-> w, sockets |-> socks, ok |-> FALSE]

\* The processor's audioprocess event.
AudioProcess ==
  /\ audio.processor
  /\ ws.packetCount < MaxPackets
  /\ LET s == HandleAudioProcess(audio, ws, sockets)
     IN /\ ws' = s.ws
        /\ sockets' = s.sockets
  /\ Commit(Page(room, audio, timers), Event("audio"))
  /\ UNCHANGED <<phase, config, initPending, replay, script>>

\* The "Leave Room" button, which stays rendered until the navigation
\* unmounts the page.
LeaveRoom ==
  /\ phase \in {"mounted", "leaving"}
  /\ LET d == Disconnect(ws, sockets)
     IN /\ ws' = d.ws
        /\ sockets' = d.sockets
        /\ Commit(Page(room, AudioStop(audio), timers),
                  [Event("leave") EXCEPT !.fault = d.threw])
  /\ phase' = "leaving"
  /\ UNCHANGED <<config, initPending, replay, script>>

\* The effect's cleanup, on unmount.
Unmount ==
  /\ phase \in {"mounted", "leaving"}
  /\ LET d == Disconnect(ws, sockets)
     IN /\ ws' = d.ws
        /\ sockets' = d.sockets
        /\ Commit(Page(room, AudioCleanup(audio), timers),
                  [Event("unmount") EXCEPT !.fault = d.threw])
  /\ phase' = "left"
  /\ UNCHANGED <<config, initPending, replay, script>>

Next ==
  \/ Mount
  \/ \E outcome \in {"granted", "denied", "unsupported"} : InitializeDone(outcome)
  \/ \E i \in 1..Len(sockets) : SocketOpen(i)
  \/ \E i \in 1..Len(sockets), m \in Messages : SocketMessage(i, m)
  \/ \E i \in 1..Len(sockets) : SocketFail(i)
  \/ \E i \in 1..Len(sockets) : SocketClose(i)
  \/ RetryTimer
  \/ ToggleRecording
  \/ AudioProcess
  \/ LeaveRoom
  \/ Unmount

Spec == Init /\ [][Next]_vars

\* The lifecycle with the timeouts of the page expiring: a pending retry
\* timeout is run once its delay has passed.
FairSpec == Init /\ [][Next]_vars /\ WF_vars(RetryTimer)

\* The close event of a socket on which close() has been called, alone or
\* after the error event of a closing handshake that failed.
CloseDelivered ==
  \E i \in 1..Len(sockets) :
     sockets[i].readyState = "CLOSING" /\ (SocketClose(i) \/ SocketFail(i))

\* The lifecycle with the closing handshake of every closed socket completing.
ClosingSpec == Init /\ [][Next]_vars /\ WF_vars(CloseDelivered)

\* ------------------------------------------- the reconciliation engine alone
\* Transcript events: the ones that carry a single category (one segment, or
\* two with equal or different ids; one translation entry; a last_segments),
\* and the ones that carry a segment, its translation and a last_segments.
SegmentLists ==
  {<<s>> : s \in Segments}
    \cup {<<FirstSegment, t>> : t \in {x \in Segments : x.timestamp = 7 /\ x.data.uid = "1"}}

EngineMessages ==
  {TranscriptMessage(segs, <<>>, <<>>) : segs \in SegmentLists}
    \cup {TranscriptMessage(<<>>, <<t>>, <<>>) : t \in TranslationEntries}
    \cup {TranscriptMessage(<<>>, <<>>, last) : last \in LastSegments}
    \cup {TranscriptMessage(<<FirstSegment>>, <<FirstTranslation>>, last) : last \in LastSegments}

\* The session once the server has accepted it: the socket is open, the
\* handshake is sent and SERVER_READY has been handled.
ConnectedSocket ==
  /\ phase = "mounted"
  /\ config = ConfigFor("example.com")
  /\ ws = [InitWs EXCEPT !.socket = 1, !.serverBackend = "faster_whisper"]
  /\ sockets = << [readyState |-> "OPEN", sent |-> <<Handshake(InitWs, config)>>,
                   url |-> Url(config), established |-> TRUE] >>
  /\ room = [InitRoom EXCEPT !.status = "connected"]
  /\ initPending = 0
  /\ timers = 0
  /\ event = [Event("message") EXCEPT !.socket = 1, !.msg = ServerReady]
  /\ reported = <<"connected">>
  /\ errorStreak = 0

ConnectedSession ==
  /\ ConnectedSocket
  /\ audio = AudioInitialize(InitAudio, "granted")

Connected ==
  /\ ConnectedSession
  /\ replay = [ws |-> InitWs, room |-> InitRoom]
  /\ script = NoScript

ReceiveTranscript == \E m \in EngineMessages : SocketMessage(1, m)

SpecEngine == Connected /\ [][ReceiveTranscript]_vars

\* ------------------------------------------------- the connection alone
\* The component, a server that accepts or refuses and connections that
\* fail: no audio, no transcript, one more socket than the full model.
LinkMessages ==
  { [NoMessage EXCEPT !.status = "ERROR", !.uid = InitWs.uid],
    ServerReady,
    [ServerReady EXCEPT !.uid = InitWs.uid] }

LinkInit == Init /\ ~ConstructorThrows(config)

RetryLink == RetryWithin(MaxSockets)

LinkNext ==
  \/ Mount
  \/ \E i \in 1..Len(sockets) : SocketOpen(i)
  \/ \E i \in 1..Len(sockets), m \in LinkMessages : SocketMessage(i, m)
  \/ \E i \in 1..Len(sockets) : SocketFail(i)
  \/ \E i \in 1..Len(sockets) : SocketClose(i)
  \/ RetryLink

SpecLink == LinkInit /\ [][LinkNext]_vars

\* --------------------------------------------- every shape of inbound message
\* One message of each shape handleMessage tells apart, two transcript
\* messages with a null element in one category, and a transcript message
\* that also carries a summary.
InboundShapes ==
  ControlMessages
    \cup { [NoMessage EXCEPT !.status = "WARNING", !.message = "slow"],
           [NoMessage EXCEPT !.language = "en", !.language_prob = 1],
           [NoMessage EXCEPT !.hasSummary = TRUE, !.summary = "notes"],
           [TranscriptMessage(<<FirstSegment>>, <<FirstTranslation>>, Live6)
              EXCEPT !.available_languages = <<"es">>],
           [TranscriptMessage(<<FirstSegment>>, <<>>, Live7)
              EXCEPT !.hasSummary = TRUE, !.summary = "notes"],
           TranscriptMessage(<<Null, FirstSegment>>, <<FirstTranslation>>, Live6),
           TranscriptMessage(<<FirstSegment>>, <<Null, FirstTranslation>>, Live7) }

\* The identities a message may carry: none, the session's, another one.
InboundUids == {"", InitWs.uid, "xyz"}

InboundMessages ==
  {[m EXCEPT !.uid = u] : m \in InboundShapes, u \in InboundUids}
    \cup OtherFrames

ReceiveInbound == \E m \in InboundMessages : SocketMessage(1, m)

SpecInbound == Connected /\ [][ReceiveInbound]_vars

\* ------------------------------------------------- the in-progress segment
\* Values of last_segments whose first entry has no text, and one with two
\* entries.
LiveBlank == << <<9, [uid |-> "", text |-> "", client_name |-> "tien", language |-> "en", completed |-> FALSE]>> >>
LiveTwo == << <<8, [uid |-> "", text |-> "so", client_name |-> "ana", language |-> "en", completed |-> FALSE]>>,
              <<6, [uid |-> "", text |-> "hi", client_name |-> "tien", language |-> "en", completed |-> FALSE]>> >>
LiveValues == {<<>>, Live6, Live7, LiveBlank, LiveTwo}

LiveMessages ==
  {TranscriptMessage(<<>>, <<>>, last) : last \in LiveValues}
    \cup {TranscriptMessage(<<FirstSegment>>, <<FirstTranslation>>, last) : last \in {<<>>, LiveBlank}}

ReceiveLive == \E m \in LiveMessages : SocketMessage(1, m)

SpecLive == Connected /\ [][ReceiveLive]_vars

\* ------------------------------------------- messages of more than one shape
\* A transcript with a summary, and the same payload in messages that also
\* have a status, a message or a detected language; control messages of two
\* shapes at once; a language without its probability.
FullPayload ==
  [TranscriptMessage(<<FirstSegment>>, <<FirstTranslation>>, Live6)
     EXCEPT !.available_languages = <<"es">>, !.hasSummary = TRUE, !.summary = "notes"]

BranchMessages ==
  { FullPayload,
    TranscriptMessage(<<>>, <<>>, Live7),
    [NoMessage EXCEPT !.hasSummary = TRUE, !.summary = "more"],
    [FullPayload EXCEPT !.language = "en"],
    [FullPayload EXCEPT !.language = "en", !.language_prob = 1],
    [FullPayload EXCEPT !.message = "DISCONNECT"],
    [FullPayload EXCEPT !.message = "SERVER_READY", !.backend = "faster_whisper"],
    [NoMessage EXCEPT !.status = "WAIT", !.message = "DISCONNECT"],
    [NoMessage EXCEPT !.status = "WARNING", !.message = "SERVER_READY", !.backend = "tensorrt"],
    [NoMessage EXCEPT !.message = "DISCONNECT", !.language = "fr", !.language_prob = 1],
    [NoMessage EXCEPT !.message = "SERVER_READY", !.backend = "tensorrt",
                      !.language = "fr", !.language_prob = 1] }
    \cup {[FullPayload EXCEPT !.status = s] : s \in {"WAIT", "ERROR", "WARNING"}}

ReceiveBranch == \E m \in BranchMessages : SocketMessage(1, m)

SpecBranch == Connected /\ [][ReceiveBranch]_vars

\* ------------------------------------------- translations found by timestamp
\* Three finalized segments, the second sent with completed false, and three
\* translation entries: two of timestamp 6 with different translations, one
\* of timestamp 7, none of timestamp 8.
MatchSegments ==
  { [id |-> 1, timestamp |-> 6,
     data |-> [uid |-> "5", text |-> "hello", client_name |-> "tien",
               language |-> "en", completed |-> TRUE]],
    [id |-> 2, timestamp |-> 7,
     data |-> [uid |-> "", text |-> "bye", client_name |-> "",
               language |-> Undefined, completed |-> FALSE]],
    [id |-> 3, timestamp |-> 8,
     data |-> [uid |-> "7", text |-> "later", client_name |-> "ana",
               language |-> "en", completed |-> TRUE]] }

MatchTranslations ==
  { [id |-> 1, timestamp |-> 6, translations |-> [def |-> TRUE, map |-> ("es" :> "hola")]],
    [id |-> 2, timestamp |-> 6, translations |-> [def |-> TRUE, map |-> ("fr" :> "salut")]],
    [id |-> 3, timestamp |-> 7, translations |-> [def |-> TRUE, map |-> ("es" :> "adios")]] }

MatchMessages ==
  {TranscriptMessage(<<seg>>, <<>>, <<>>) : seg \in MatchSegments}
    \cup {TranscriptMessage(<<>>, <<t>>, <<>>) : t \in MatchTranslations}
    \cup {TranscriptMessage(<<>>, <<>>, Live6)}

ReceiveMatch == \E m \in MatchMessages : SocketMessage(1, m)

SpecMatch == Connected /\ [][ReceiveMatch]_vars

\* ------------------------------------------------ the connection target
\* Hosts that are, hold or resemble a loopback name, and hosts that do not;
\* two ports.
UrlHosts ==
  { "localhost", "127.0.0.1", "example.com", "192.168.0.7", "127.0.0.2",
    "notlocalhost.example.com", "localhost.example.com" }
UrlPorts == {"9090", "443"}

UrlConfigs ==
  {[ConfigFor("example.com") EXCEPT !.serverUrl = h, !.serverPort = p] :
     h \in UrlHosts, p \in UrlPorts}

UrlInit == Loaded(UrlConfigs)

UrlNext ==
  \/ Mount
  \/ \E i \in 1..Len(sockets) : SocketOpen(i)
  \/ \E i \in 1..Len(sockets) : SocketFail(i)
  \/ RetryTimer

SpecUrl == UrlInit /\ [][UrlNext]_vars

\* ------------------------------------------------- the AudioManager alone
\* The methods of an AudioManager called in any order, in a connected session
\* whose manager has just been constructed.
AudioInit ==
  /\ ConnectedSocket
  /\ audio = InitAudio
  /\ replay = [ws |-> InitWs, room |-> InitRoom]
  /\ script = NoScript

\* A call that changes the AudioManager only.
AudioCall(a, kind, result) ==
  /\ Commit(Page(room, a, timers),
            [Event(kind) EXCEPT !.result = result, !.prev = event.kind])
  /\ UNCHANGED <<phase, config, ws, sockets, initPending, replay, script>>

\* initialize() up to its await: cleanup(), then the request for the device,
\* whether or not an earlier call is still awaiting its own.
CallInitialize ==
  /\ initPending < MaxPending
  /\ initPending' = initPending + 1
  /\ Commit(Page(room, AudioCleanup(audio), timers),
            [Event("initialize") EXCEPT !.prev = event.kind])
  /\ UNCHANGED <<phase, config, ws, sockets, replay, script>>

\* A call of initialize() made on the AudioManager alone returns to its
\* caller: nothing of the page changes.
InitializeReturns(outcome) ==
  /\ initPending > 0
  /\ initPending' = initPending - 1
  /\ Commit(Page(room, AudioInitialize(audio, outcome), timers),
            [Event("initialized") EXCEPT !.result = outcome, !.prev = event.kind])
  /\ UNCHANGED <<phase, config, ws, sockets, replay, script>>

\* start(); the result is the value returned, none when it throws.
CallStart ==
  LET s == AudioStart(audio) IN
  /\ Commit(Page(room, s.audio, timers),
            [Event("start") EXCEPT !.fault = s.threw, !.prev = event.kind,
                                   !.result = CASE s.threw -> ""
                                                [] s.ok -> "true"
                                                [] OTHER -> "false"])
  /\ UNCHANGED <<phase, config, ws, sockets, initPending, replay, script>>

CallStop == AudioCall(AudioStop(audio), "stop", "")

\* cleanup(); the result tells whether it let go of a processor node.
CallCleanup ==
  AudioCall(AudioCleanup(audio), "cleanup", IF audio.processor THEN "released" ELSE "")

\* An audioprocess event of the processor node that the cleanup() just made
\* let go of, whose onaudioprocess handler stays bound to the manager.
StrayAudioProcess ==
  /\ ~audio.processor
  /\ \/ event.kind = "cleanup" /\ event.result = "released"
     \/ event.kind = "stray audio"
  /\ ws.packetCount < MaxPackets
  /\ LET s == HandleAudioProcess(audio, ws, sockets)
     IN /\ ws' = s.ws
        /\ sockets' = s.sockets
  /\ Commit(Page(room, audio, timers), [Event("stray audio") EXCEPT !.prev = event.kind])
  /\ UNCHANGED <<phase, config, initPending, replay, script>>

AudioNext ==
  \/ CallInitialize
  \/ \E outcome \in InitializeOutcomes : InitializeReturns(outcome)
  \/ CallStart
  \/ CallStop
  \/ CallCleanup
  \/ AudioProcess
  \/ StrayAudioProcess

SpecAudio == AudioInit /\ [][AudioNext]_vars

\* ------------------------------------------------ the views of the store
\* Finalized segments of three speakers (tien, ana, one without a name), two
\* of them with the same timestamp, one with the timestamp 0 and one with no
\* text, keyed by a uid that is an array index or by their timestamp.
ViewData(uid, text, name) ==
  [uid |-> uid, text |-> text, client_name |-> name, language |-> "en", completed |-> TRUE]

ViewSegments ==
  { [id |-> 1, timestamp |-> 7, data |-> ViewData("", "later", "tien")],
    [id |-> 2, timestamp |-> 6, data |-> ViewData("", "hello", "ana")],
    [id |-> 3, timestamp |-> 0, data |-> ViewData("", "first", "tien")],
    [id |-> 4, timestamp |-> 6, data |-> ViewData("7", "hi", "")],
    [id |-> 5, timestamp |-> 8, data |-> ViewData("", "", "ana")] }

ViewMessages ==
  {TranscriptMessage(<<v>>, <<>>, <<>>) : v \in ViewSegments}
    \cup {TranscriptMessage(<<>>, <<>>, Live6)}

ReceiveView == \E m \in ViewMessages : SocketMessage(1, m)

SpecView == Connected /\ [][ReceiveView]_vars

\* -------------------------------------- two sessions, two orders of arrival
\* Both sessions start connected and handle the same first event; then one is
\* handed the translation entry before the segment, the other the segment
\* before the translation entry.
OrderInit ==
  /\ ConnectedSession
  /\ \E pre \in EngineMessages \cup {NoMessage}, seg \in Segments, tr \in TranslationEntries :
        /\ tr.timestamp = seg.timestamp
        /\ script = [pc |-> 0, pre |-> pre, seg |-> seg, tr |-> tr]
  /\ replay = [ws |-> ws, room |-> room]

\* One message event in each session.
DeliverBoth(m, n) ==
  /\ sockets[1].readyState = "OPEN"
  /\ LET h == HandleMessage(ws, Page(room, audio, timers), m)
         g == HandleMessage(replay.ws, Page(replay.room, audio, timers), n)
     IN /\ ws' = h.ws
        /\ Commit(h.page, [Event("message") EXCEPT !.socket = 1, !.msg = m,
                                                   !.fault = h.threw])
        /\ replay' = [ws |-> g.ws, room |-> g.page.room]
  /\ script' = [script EXCEPT !.pc = @ + 1]
  /\ UNCHANGED <<phase, config, sockets, initPending>>

SegmentOnly(seg) == TranscriptMessage(<<seg>>, <<>>, <<>>)
TranslationOnly(tr) == TranscriptMessage(<<>>, <<tr>>, <<>>)

OrderPrefix == script.pc = 0 /\ DeliverBoth(script.pre, script.pre)
OrderFirst == script.pc = 1 /\ DeliverBoth(TranslationOnly(script.tr), SegmentOnly(script.seg))
OrderSecond == script.pc = 2 /\ DeliverBoth(SegmentOnly(script.seg), TranslationOnly(script.tr))

OrderNext == OrderPrefix \/ OrderFirst \/ OrderSecond

SpecOrder == OrderInit /\ [][OrderNext]_vars

\* ------------------------------------------------------------- properties
Store == room.transcriptMap
LiveKeys == {k \in DOMAIN Store : ~Store[k].completed}
FinalKeys == {k \in DOMAIN Store : Store[k].completed}

\* The key a finalized segment with this timestamp and data is stored under.
KeyOf(timestamp, data) ==
  IF data.uid # "" THEN data.uid ELSE "transcript-" \o NumberToString(timestamp)

SameContent(a, b) ==
  /\ a.text = b.text /\ a.timestamp = b.timestamp /\ a.name = b.name
  /\ a.completed = b.completed /\ a.language = b.language
  /\ MapOrEmpty(a.translations) = MapOrEmpty(b.translations)

\* C1: at most one live (non-final) segment exists in the store at any time.
C1_SingleLiveSegment == Cardinality(LiveKeys) <= 1

\* C2: a finalized segment, once in the store, keeps its text, timestamp and
\* speaker in every later state of the store.
C2_FinalizedPreserved ==
  [][\A k \in FinalKeys :
        /\ k \in DOMAIN room'.transcriptMap
        /\ room'.transcriptMap[k].text = Store[k].text
        /\ room'.transcriptMap[k].timestamp = Store[k].timestamp
        /\ room'.transcriptMap[k].name = Store[k].name]_vars

\* The writes one recomputation of the store makes to key k, in order.
WritesTo(w, k) == LET Hits(d) == d.id = k IN SelectSeq(UpdateUI(w), Hits)

\* C3: a write to an id already in the store leaves the union of the existing
\* and the incoming translations, the incoming value winning for a language
\* present in both, and the incoming values in every other field; a known
\* translation is never absent afterwards.
C3_MergeUnion ==
  [][\A k \in DOMAIN Store :
       LET old == MapOrEmpty(Store[k].translations)
           calls == WritesTo(ws', k)
           new == room'.transcriptMap[k]
           Carriers(l) == {i \in 1..Len(calls) : l \in DOMAIN MapOrEmpty(calls[i].translations)}
           Last(l) == CHOOSE i \in Carriers(l) : \A j \in Carriers(l) : j <= i
       IN /\ k \in DOMAIN room'.transcriptMap
          /\ DOMAIN old \subseteq DOMAIN MapOrEmpty(new.translations)
          /\ calls # <<>> =>
               /\ new.translations.def
               /\ DOMAIN new.translations.map =
                    DOMAIN old \cup UNION {DOMAIN MapOrEmpty(calls[i].translations) : i \in 1..Len(calls)}
               /\ \A l \in DOMAIN new.translations.map :
                    new.translations.map[l] =
                      IF Carriers(l) # {} THEN calls[Last(l)].translations.map[l] ELSE old[l]
               /\ LET d == calls[Len(calls)] IN
                    /\ new.id = d.id /\ new.text = d.text /\ new.timestamp = d.timestamp
                    /\ new.name = d.name /\ new.completed = d.completed
                    /\ new.language = d.language]_vars

\* An entry that held "hola" for es was written again with "adios" for es and
\* a new fr, and again by a segment that carries no translations.
C3_Witness ==
  /\ "5" \in DOMAIN Store
  /\ Store["5"].translations.map = ("es" :> "adios") @@ ("fr" :> "salut")
  /\ \E i \in 1..Len(ws.transcript) :
        /\ KeyOf(ws.transcript[i][1], ws.transcript[i][2]) = "5"
        /\ FindTranslation(ws.multilingualTranscript, ws.transcript[i][1]).map = ("es" :> "hola")
  /\ "in-progress-3" \in DOMAIN Store
  /\ event.msg.last_segments = Live6
  /\ ws.transcript # <<>>

\* The ids of a message's segments that the manager had not seen.
NewIds(w, m) ==
  {m.recent_segments[i].id : i \in 1..Len(m.recent_segments)} \ w.processedTranscriptIds

\* The first element of the message's segments with this id.
FirstWithId(m, x) ==
  m.recent_segments[CHOOSE i \in 1..Len(m.recent_segments) :
                       /\ m.recent_segments[i].id = x
                       /\ \A j \in 1..(i-1) : m.recent_segments[j].id # x]

\* C4: a finalized-segment id is appended to the log once, with the timestamp
\* and data of its first delivery; a later delivery of the id, whatever it
\* carries, changes neither the log nor the finalized entries of the store
\* (they may only gain translations that arrive with it); the store holds
\* the entry of the first delivery.
C4_DedupIdempotent ==
  [][LET m == event'.msg
         fresh == NewIds(ws, m)
         n == Len(ws.transcript)
     IN /\ Len(ws'.transcript) = n + Cardinality(fresh)
        /\ \A i \in 1..n : ws'.transcript[i] = ws.transcript[i]
        /\ \A x \in fresh : \E i \in (n+1)..Len(ws'.transcript) :
              ws'.transcript[i] = <<FirstWithId(m, x).timestamp, FirstWithId(m, x).data>>
        /\ fresh # {} =>
              LET e == ws'.transcript[Len(ws'.transcript)]
                  k == KeyOf(e[1], e[2])
              IN /\ k \in DOMAIN room'.transcriptMap
                 /\ room'.transcriptMap[k].text = e[2].text
                 /\ room'.transcriptMap[k].timestamp = e[1]
                 /\ room'.transcriptMap[k].completed
        /\ fresh = {} =>
              /\ {k \in DOMAIN room'.transcriptMap : room'.transcriptMap[k].completed} = FinalKeys
              /\ \A k \in FinalKeys :
                    /\ room'.transcriptMap[k].text = Store[k].text
                    /\ room'.transcriptMap[k].timestamp = Store[k].timestamp
                    /\ room'.transcriptMap[k].name = Store[k].name
                    /\ room'.transcriptMap[k].language = Store[k].language
                    /\ ws'.multilingualTranscript = ws.multilingualTranscript
                         => SameContent(room'.transcriptMap[k], Store[k])]_vars

\* An id was delivered a second time with another timestamp or data: the log
\* and the store still hold the first delivery, once.
C4_Witness ==
  /\ Len(ws.transcript) = 1
  /\ ws.processedTranscriptIds = {1}
  /\ Len(event.msg.recent_segments) = 1
  /\ event.msg.recent_segments[1].id = 1
  /\ <<event.msg.recent_segments[1].timestamp, event.msg.recent_segments[1].data>> # ws.transcript[1]
  /\ KeyOf(event.msg.recent_segments[1].timestamp, event.msg.recent_segments[1].data)
       # KeyOf(ws.transcript[1][1], ws.transcript[1][2])
  /\ FinalKeys = {KeyOf(ws.transcript[1][1], ws.transcript[1][2])}
  /\ \A k \in FinalKeys : Store[k].text = ws.transcript[1][2].text

\* C5: the translation for timestamp T delivered before or after the segment
\* with timestamp T leaves the same store entry for the segment.
C5_OrderIndependent ==
  script.pc = 3 =>
    LET k == KeyOf(script.seg.timestamp, script.seg.data) IN
      /\ DOMAIN Store = DOMAIN replay.room.transcriptMap
      /\ \A j \in DOMAIN Store : SameContent(Store[j], replay.room.transcriptMap[j])
      /\ k \in DOMAIN Store => Store[k].completed
      /\ script.seg.id \notin NewIds(InitWs, script.pre) => k \in DOMAIN Store

\* Both orders have run and the segment's entry holds its text and the
\* translation, completed.
C5_Witness ==
  /\ script.pc = 3
  /\ script.pre = NoMessage
  /\ LET k == KeyOf(script.seg.timestamp, script.seg.data) IN
       /\ k \in DOMAIN Store
       /\ Store[k].text = script.seg.data.text
       /\ Store[k].translations = script.tr.translations
       /\ Store[k].completed
       /\ replay.room.transcriptMap[k].translations = script.tr.translations

\* C6: a finalized segment with id I, timestamp T and text X followed by a
\* translation entry with timestamp T and translations M is stored under the
\* key I with text X, translations M and completed = true.
C6_KeyedBySegmentId ==
  ( /\ ws.processedTranscriptIds # {}
    /\ Len(ws.transcript) = 1
    /\ Len(event.msg.multilingual) = 1
    /\ event.msg.recent_segments = <<>>
    /\ event.msg.multilingual[1].id \notin ws.processedTranscriptIds
    /\ ws.multilingualTranscript = << <<ws.transcript[1][1], event.msg.multilingual[1].translations>> >> )
  => \A i \in ws.processedTranscriptIds :
        /\ ToString(i) \in DOMAIN Store
        /\ Store[ToString(i)].text = ws.transcript[1][2].text
        /\ Store[ToString(i)].translations = event.msg.multilingual[1].translations
        /\ Store[ToString(i)].completed

NumericKeys == {k \in DOMAIN Store : IsNumeric(k)}

\* C7: the global advancing identifier is the maximum numeric id seen so far.
C7_GlobalIdIsMax ==
  NumericKeys # {} =>
    /\ IsNumeric(room.globalTranscriptId)
    /\ \A k \in NumericKeys : ToNumber(k) <= ToNumber(room.globalTranscriptId)

\* The message shown once the retries are given up.
TerminalError == "Failed to connect to server after 3 attempts."

\* C8: once status error has been reported three times with no connected in
\* between, no automatic connect() is pending and the terminal error is shown.
C8_RetryBound ==
  (phase = "mounted" /\ errorStreak >= MaxAttempts) =>
     /\ timers = 0
     /\ room.status = "error" => room.connectionError = TerminalError

\* The third consecutive failure has been reported and still a retry is pending.
C8_StillRetrying ==
  /\ phase = "mounted"
  /\ errorStreak >= MaxAttempts
  /\ timers > 0
  /\ room.connectionAttempts = 1

\* The "Retry connection" control is never rendered: the state from which a
\* manual connect() is made does not occur.
RetryNeverOffered == ~RetryOffered

\* C10: a step that reports status error or disconnected while capture is
\* active leaves capture stopped, and a step that transmits an audio frame
\* starts and ends with the status connected.
C10_NoAudioUnlessConnected ==
  [][/\ (audio.isRecording /\ \E i \in 1..Len(reported') : reported'[i] \in {"error", "disconnected"})
          => ~audio'.isRecording
     /\ ws'.packetCount > ws.packetCount
          => (room.status = "connected" /\ room'.status = "connected")]_vars

\* An audio frame has been transmitted while the status is error.
C10_AudioWhileError ==
  /\ event.kind = "audio"
  /\ ws.packetCount > 0
  /\ room.status = "error"
  /\ audio.isRecording

\* C11: a message whose uid is present and differs from the session identity
\* changes nothing of the manager, the page, the audio manager, the timers or
\* the sockets, and reports no status, whatever else it carries.
C11_MismatchedIdentityIgnored ==
  [][(event'.kind = "message" /\ event'.msg.frame = "json"
        /\ event'.msg.uid \notin {"", ws.uid})
       => /\ ws' = ws /\ room' = room /\ audio' = audio
          /\ timers' = timers /\ sockets' = sockets
          /\ reported' = <<>>]_vars

\* A status=ERROR message with another identity was handled in a connected
\* session that holds finalized segments: the status is still connected.
C11_Witness ==
  /\ event.kind = "message"
  /\ event.msg.uid = "xyz"
  /\ event.msg.status = "ERROR"
  /\ room.status = "connected"
  /\ ws.transcript # <<>>
  /\ "5" \in DOMAIN Store

\* C15: a transcript message with a null element among its finalized segments
\* still has its translation entries logged, its last_segments taken and the
\* store recomputed.
C15_FailureIsolated ==
  [][LET m == event'.msg IN
     (event'.kind = "message" /\ m.frame = "json" /\ ~IdentityMismatch(ws, m)
        /\ m.hasTranscript /\ Null \in Range(m.recent_segments))
       => /\ \A t \in Range(m.multilingual) \ {Null} : t.id \in ws'.processedTranslationIds
          /\ ws'.lastSegment = m.last_segments
          /\ \A d \in Range(LiveSegment(m.last_segments)) : d.id \in DOMAIN room'.transcriptMap]_vars

\* The session-scoped buffers of the manager hold nothing.
BuffersCleared(w) ==
  w.transcript = <<>> /\ w.multilingualTranscript = <<>> /\ w.lastSegment = <<>>

\* C12: once disconnect() has run and the close event of its socket has been
\* handled, the three session buffers are empty and the connect() that follows
\* leaves a manager that handles every transcript message exactly as a
\* freshly constructed manager does.
C12_CleanSlate ==
  (/\ phase \in {"leaving", "left"}
   /\ event.kind = "timer"
   /\ ws.socket # 0
   /\ \A j \in 1..(ws.socket - 1) : sockets[j].readyState = "CLOSED") =>
     /\ BuffersCleared(ws)
     /\ \A m \in {x \in Messages : x.hasTranscript} :
          LET fresh == ProcessSegments(InitWs, m)
              again == ProcessSegments(ws, m)
          IN /\ again.transcript = fresh.transcript
             /\ again.multilingualTranscript = fresh.multilingualTranscript
             /\ again.lastSegment = fresh.lastSegment
             /\ UpdateUI(again) = UpdateUI(fresh)

\* A connect() has followed a disconnect() and the close of its socket, on a
\* manager that had handled a transcript message.
C12_Reconnected ==
  /\ phase \in {"leaving", "left"}
  /\ event.kind = "timer"
  /\ ws.socket = 2
  /\ sockets[1].readyState = "CLOSED"
  /\ BuffersCleared(ws)
  /\ ws.processedTranscriptIds # {}

\* The edges of the connection state machine.
Edges ==
  { <<"disconnected", "connecting">>, <<"connecting", "connected">>,
    <<"connecting", "error">>, <<"connecting", "waiting">>,
    <<"waiting", "connected">>, <<"waiting", "error">>,
    <<"connected", "error">>, <<"connected", "disconnected">>,
    <<"error", "connecting">> }

\* The status before a step followed by the statuses the step reports.
StatusChain == <<room.status>> \o reported'

\* C13: every change of the reported status follows an edge of the state
\* machine.
C13_StatusFollowsEdges ==
  [][\A i \in 1..Len(reported') :
        StatusChain[i] # StatusChain[i+1] => <<StatusChain[i], StatusChain[i+1]>> \in Edges]_vars

\* The audio frames among what was sent on a socket.
AudioCount(sock) == Cardinality({i \in 1..Len(sock.sent) : sock.sent[i].type = "audio"})

\* C14: sendAudio returns true exactly when the manager's socket exists and is
\* open, then sending one frame on it, and otherwise sends nothing; a frame
\* handed over by the capture pipeline is sent at once or not at all, and no
\* other step sends an audio frame.
C14_SendAudioOnlyWhenOpen ==
  [][LET open == ws.socket # 0 /\ sockets[ws.socket].readyState = "OPEN"
         s == SendAudio(ws, sockets)
     IN /\ s.ok <=> open
        /\ ~open => (s.sockets = sockets /\ s.ws = ws)
        /\ (event'.kind = "audio" /\ audio.isRecording) =>
              IF open
              THEN /\ sockets' = [sockets EXCEPT ![ws.socket].sent = Append(@, AudioFrame)]
                   /\ ws'.packetCount = ws.packetCount + 1
              ELSE sockets' = sockets /\ ws' = ws
        /\ event'.kind # "audio" =>
              \A i \in 1..Len(sockets) : AudioCount(sockets'[i]) = AudioCount(sockets[i])]_vars

\* The capture pipeline handed a frame over while the manager's socket was
\* closed: nothing was sent on it.
C14_Witness ==
  /\ event.kind = "audio"
  /\ audio.isRecording
  /\ ws.socket # 0
  /\ sockets[ws.socket].readyState = "CLOSED"
  /\ AudioCount(sockets[ws.socket]) = 0
  /\ ws.packetCount = 0

\* The identities of the handshakes sent on a socket.
HandshakeUids(sock) ==
  {sock.sent[i].uid : i \in {j \in 1..Len(sock.sent) : sock.sent[j].type = "handshake"}}

\* C17: the handshakes of two connection attempts carry different identities,
\* and a message that carries the identity of an earlier attempt is discarded.
C17_IdentityPerAttempt ==
  [][/\ \A i, j \in 1..Len(sockets) :
          i < j => HandshakeUids(sockets[i]) \cap HandshakeUids(sockets[j]) = {}
     /\ (event'.kind = "message" /\ event'.msg.frame = "json" /\ event'.msg.uid # ""
           /\ \E j \in 1..(ws.socket - 1) : event'.msg.uid \in HandshakeUids(sockets[j]))
          => (ws' = ws /\ room' = room /\ reported' = <<>>)]_vars

\* C18: the status waiting is reported only when the status is connecting (or
\* already waiting).
C18_WaitingOnlyWhileConnecting ==
  [][\A i \in 1..Len(reported') :
        StatusChain[i+1] = "waiting" => StatusChain[i] \in {"connecting", "waiting"}]_vars

\* C19: the counter is zero whenever the status is connected, and a step that
\* reports an error to the rendered component from the status connected counts
\* it as attempt 1 and schedules a retry.
C19_CounterResetOnConnected ==
  [][/\ room'.status = "connected" => room'.connectionAttempts = 0
     /\ (phase # "left" /\ room.status = "connected" /\ "error" \in Range(reported')) =>
          /\ room.connectionAttempts = 0
          /\ room'.connectionAttempts = 1
          /\ room'.connectionError = "Connection attempt 1 failed. Retrying..."
          /\ timers' = timers + 1]_vars

\* A connection failed, the retry connected, and that connection failed: the
\* failure is the first of its streak and a retry is pending.
C19_Witness ==
  /\ event.kind = "fail"
  /\ Len(sockets) = 2
  /\ event.socket = 2
  /\ errorStreak = 1
  /\ room.connectionAttempts = 1
  /\ timers = 1

\* C20: once three consecutive failures have been reported, an error or close
\* event of a socket leaves the status error.
C20_TerminalErrorStays ==
  [][(errorStreak' >= MaxAttempts /\ event'.kind \in {"fail", "close"}
        /\ (room.status = "error" \/ "error" \in Range(reported')))
       => room'.status = "error"]_vars

\* The handshakes among what was sent on a socket.
HandshakeCount(sock) ==
  Cardinality({i \in 1..Len(sock.sent) : sock.sent[i].type = "handshake"})

\* C16: on a socket that is open exactly one handshake has been sent, it is
\* the first message sent on it, and no socket is sent a second handshake.
C16_OneHandshakeFirst ==
  \A i \in 1..Len(sockets) :
     /\ HandshakeCount(sockets[i]) <= 1
     /\ sockets[i].readyState = "OPEN" =>
          /\ HandshakeCount(sockets[i]) = 1
          /\ sockets[i].sent[1] = Handshake(ws, config)

\* A socket opened while the manager already held a later one: it is open
\* and was sent nothing.
C16_OpenWithoutHandshake ==
  \E i \in 1..Len(sockets) :
     /\ i < ws.socket
     /\ event = [Event("open") EXCEPT !.socket = i]
     /\ sockets[i].readyState = "OPEN"
     /\ sockets[i].sent = <<>>

\* C21: an accepted status=ERROR message reports the status error and leaves
\* it the status; an accepted status=WARNING message reports nothing and
\* leaves the status, the retry counter, the connection error, the manager's
\* logs and live-segment pointer, the store, the timers and the capture
\* pipeline as they were.
C21_ErrorAndWarning ==
  [][LET m == event'.msg IN
     (event'.kind = "message" /\ m.frame = "json" /\ ~IdentityMismatch(ws, m)) =>
        /\ m.status = "ERROR" =>
              /\ reported' = <<"error">>
              /\ room'.status = "error"
        /\ m.status = "WARNING" =>
              /\ reported' = <<>>
              /\ room' = room /\ ws' = ws /\ audio' = audio
              /\ timers' = timers /\ sockets' = sockets]_vars

\* A status=WARNING message carrying the session identity was handled in a
\* connected session that holds a finalized and a live segment.
C21_Witness ==
  /\ event.kind = "message"
  /\ event.msg.status = "WARNING"
  /\ event.msg.uid = ws.uid
  /\ room.status = "connected"
  /\ ws.transcript # <<>>
  /\ ws.lastSegment # <<>>
  /\ DOMAIN Store # {}

\* C22: a SERVER_READY message with the session identity or none, handled on
\* a socket whose handshake has been sent, reports the status connected and
\* leaves the status connected, no connection error and the attempt counter
\* at zero.
C22_ServerReadyConnects ==
  [][LET m == event'.msg IN
     (/\ event'.kind = "message" /\ m.frame = "json" /\ ~IdentityMismatch(ws, m)
      /\ m.status = "" /\ m.message = "SERVER_READY"
      /\ HandshakeCount(sockets[event'.socket]) > 0) =>
        /\ reported' = <<"connected">>
        /\ room'.status = "connected"
        /\ room'.connectionError = ""
        /\ room'.connectionAttempts = 0]_vars

\* The first connection failed, the retry opened a second socket, the
\* handshake was sent on it and the server answered SERVER_READY with the
\* session identity.
C22_Witness ==
  /\ event.kind = "message"
  /\ event.msg.message = "SERVER_READY"
  /\ event.msg.uid = ws.uid
  /\ event.socket = 2
  /\ ws.socket = 2
  /\ sockets[1].readyState = "CLOSED"
  /\ sockets[2].sent = <<Handshake(ws, config)>>
  /\ room.status = "connected"
  /\ room.connectionError = ""

\* C23: no step lets an exception out of the engine: handleMessage returns
\* for a binary frame, text that does not parse, the value null and every
\* object, and the first three change nothing; connect() answers a failing
\* constructor with the status error and the value false; disconnect() and
\* the stop() or cleanup() called with it return from every state of the
\* socket, leaving no socket held and capture stopped.
C23_NoFaultEscapes ==
  [][/\ ~event'.fault
     /\ (event'.kind = "message" /\ event'.msg.frame # "json") =>
           (ws' = ws /\ room' = room /\ reported' = <<>>)
     /\ event'.kind = "mount" =>
           LET c == Connect(InitWs, sockets, Page(room, audio, timers), config) IN
           IF ConstructorThrows(config)
           THEN ~c.ok /\ ~c.threw /\ sockets' = sockets /\ reported' = <<"connecting", "error">>
           ELSE c.ok /\ ~c.threw /\ reported' = <<"connecting">>
     /\ event'.kind \in {"leave", "unmount"} =>
           /\ ~Disconnect(ws, sockets).threw
           /\ ws'.socket = 0
           /\ ~audio'.isRecording
     /\ event'.kind = "unmount" => audio' = InitAudio]_vars

\* The text null was handled as a message of a connected session that holds
\* a finalized segment.
C23_Witness ==
  /\ event.kind = "message"
  /\ event.msg.frame = "null"
  /\ ~event.fault
  /\ room.status = "connected"
  /\ ws.transcript # <<>>

\* The places <<thread, position>> of the threads that hold segment t.
PlacesOf(threads, t) ==
  {<<i, j>> \in (1..Len(threads)) \X (1..Cardinality(DOMAIN Store)) :
      j <= Len(threads[i].segments) /\ threads[i].segments[j] = t}

\* C24: every value of the store is in exactly one thread, the one of its
\* speaker name (Unknown when absent); so is every segment of the visible
\* transcript; the segments of a thread are in ascending timestamp order and
\* the threads are in the order of their earliest segments.
C24_ThreadsPartitionStore ==
  LET threads == ConversationThreads(room, config) IN
    /\ \A k \in DOMAIN Store :
          /\ Cardinality(PlacesOf(threads, Store[k])) = 1
          /\ \A pl \in PlacesOf(threads, Store[k]) : threads[pl[1]].speaker = SpeakerOf(Store[k])
    /\ \A t \in Range(Transcripts(room)) : Cardinality(PlacesOf(threads, t)) = 1
    /\ \A i, j \in 1..Len(threads) : i # j => threads[i].speaker # threads[j].speaker
    /\ \A i \in 1..Len(threads) :
          \A j \in 1..(Len(threads[i].segments) - 1) :
             threads[i].segments[j].timestamp <= threads[i].segments[j+1].timestamp
    /\ \A i \in 1..(Len(threads) - 1) :
          threads[i].segments[1].timestamp <= threads[i+1].segments[1].timestamp

\* C25: the visible transcript holds every entry of the store exactly once,
\* the entry with timestamp 0 included, and nothing else, in ascending
\* timestamp order.
C25_TranscriptIsSortedStore ==
  LET shown == Transcripts(room) IN
    /\ Len(shown) = Cardinality(DOMAIN Store)
    /\ \A k \in DOMAIN Store :
          Cardinality({i \in 1..Len(shown) : shown[i] = Store[k]}) = 1
    /\ \A i \in 1..(Len(shown) - 1) : shown[i].timestamp <= shown[i+1].timestamp

\* start() finds the nodes it needs.
Ready(a) == a.microphone /\ a.processor /\ a.audioContext

\* C26: start() returns true exactly when the capture graph is there and no
\* exception leaves it; the graph is there only from a successful end of
\* initialize() until the next cleanup() or initialize(): after construction,
\* after an initialize() that has failed and after a cleanup() it is not
\* there, so that start() returns false, changes nothing and the manager is
\* not recording.
C26_StartFailsCleanly ==
  [][/\ event.kind = "message" => ~Ready(audio)
     /\ (~Ready(audio) /\ Ready(audio')) =>
           (event'.kind = "initialized" /\ event'.result = "granted")
     /\ (event'.kind = "initialized" /\ event'.result # "granted") => ~Ready(audio')
     /\ event'.kind \in {"cleanup", "initialize"} => ~Ready(audio')
     /\ ~Ready(audio') => ~audio'.isRecording
     /\ event'.kind = "start" =>
           /\ ~event'.fault
           /\ event'.result = (IF Ready(audio) THEN "true" ELSE "false")
           /\ event'.result = "false" => (audio' = audio /\ ~audio'.isRecording)
           /\ event'.result = "true" => audio'.isRecording]_vars

\* start() was called after an initialize() that had failed, on a manager
\* that holds the nodes of an earlier call next to the context of the failed
\* one: an exception left start().
C26_StartThrows ==
  /\ event.kind = "start"
  /\ event.prev = "initialized"
  /\ event.fault
  /\ audio.foreign
  /\ ~audio.isRecording

\* C27: stop() leaves capture off and changes nothing else, a second stop()
\* changes nothing, and cleanup() called in any state, before initialize()
\* and again after a cleanup(), leaves no stream, no context, no nodes and
\* capture off.
C27_StopCleanupIdempotent ==
  [][/\ event'.kind = "stop" =>
           /\ audio' = [audio EXCEPT !.isRecording = FALSE]
           /\ AudioStop(audio') = audio'
     /\ (event'.kind = "stop" /\ event.kind = "stop") => audio' = audio
     /\ event'.kind = "cleanup" =>
           /\ audio' = InitAudio
           /\ AudioCleanup(audio') = audio'
     /\ (event'.kind = "cleanup" /\ event.kind = "cleanup") => audio' = audio]_vars

\* stop() was called a second time on a manager whose graph is built.
C27_Witness ==
  /\ event.kind = "stop"
  /\ event.prev = "stop"
  /\ Ready(audio)
  /\ ~audio.isRecording

\* C28: every socket is created for the URL made of the scheme ws when the
\* configured host is localhost or 127.0.0.1 and wss for every other host,
\* then "://", the host, ":" and the port as configured.
C28_SchemeByLoopback ==
  \A i \in 1..Len(sockets) :
     sockets[i].url =
       (IF config.serverUrl \in {"localhost", "127.0.0.1"} THEN "ws" ELSE "wss")
         \o "://" \o config.serverUrl \o ":" \o config.serverPort

\* The step is a message event that reaches the call of processSegments.
TranscriptEvent(w, e) ==
  LET m == e.msg IN
  /\ e.kind = "message" /\ m.frame = "json" /\ ~IdentityMismatch(w, m)
  /\ m.status = "" /\ m.message \notin {"DISCONNECT", "SERVER_READY"}
  /\ ~(m.language # "" /\ m.language_prob # 0)
  /\ m.hasTranscript

\* C29: after every transcript event the manager's in-progress state is the
\* event's last_segments, and the live segment the event emits, the last call
\* of onTranscription, is the one built from the event's last_segments; when
\* they yield no live segment the last segment emitted is a finalized one or
\* nothing is emitted.
C29_LiveStateReplaced ==
  [][LET m == event'.msg IN
     TranscriptEvent(ws, event') =>
       /\ ws'.lastSegment = m.last_segments
       /\ LiveSegment(m.last_segments) # <<>> =>
            room'.latestTranscriptData = LiveSegment(m.last_segments)
       /\ LiveSegment(m.last_segments) = <<>> =>
            /\ ws'.transcript # <<>> =>
                 \A d \in Range(room'.latestTranscriptData) : d.completed
            /\ ws'.transcript = <<>> =>
                 room'.latestTranscriptData = room.latestTranscriptData]_vars

\* The translation log has an entry of this timestamp.
HasTranslation(mlog, timestamp) == \E j \in 1..Len(mlog) : mlog[j][1] = timestamp

\* C30: a store recomputation emits one segment for each entry of the
\* finalized-segment log, in order, each with completed true; its translations
\* are those of the translation-log entry of the same timestamp that no
\* earlier entry of that timestamp precedes, and none when the translation log
\* has no entry of that timestamp.
C30_FirstMatchWins ==
  LET mlog == ws.multilingualTranscript IN
  \A i \in 1..Len(ws.transcript) :
     LET timestamp == ws.transcript[i][1]
         emitted == UpdateUI(ws)[i]
     IN /\ emitted.timestamp = timestamp
        /\ emitted.text = ws.transcript[i][2].text
        /\ emitted.completed = TRUE
        /\ ~HasTranslation(mlog, timestamp) => ~emitted.translations.def
        /\ \A j \in 1..Len(mlog) :
             (mlog[j][1] = timestamp /\ \A k \in 1..(j - 1) : mlog[k][1] # timestamp)
               => emitted.translations = mlog[j][2]

\* The log holds a segment whose timestamp two translation entries with
\* different translations have, a segment received with completed false, and
\* a segment no translation entry matches.
C30_Witness ==
  LET mlog == ws.multilingualTranscript IN
  /\ \E i \in 1..Len(ws.transcript), j, k \in 1..Len(mlog) :
        /\ j < k
        /\ mlog[j][1] = ws.transcript[i][1]
        /\ mlog[k][1] = ws.transcript[i][1]
        /\ mlog[j][2] # mlog[k][2]
  /\ \E i \in 1..Len(ws.transcript) : ~ws.transcript[i][2].completed
  /\ \E i \in 1..Len(ws.transcript) : ~HasTranslation(mlog, ws.transcript[i][1])

\* C31: a transcript event writes an in-progress entry to the store only when
\* its last_segments is present and the first entry has non-empty text; the
\* entry is then the one of key in-progress-<timestamp>, with that text and
\* timestamp, completed false and an empty translations map, and no other
\* in-progress entry is touched; with last_segments absent or its text empty
\* no in-progress entry is written.
C31_LiveWrittenOnlyWithText ==
  [][LET m == event'.msg
         last == m.last_segments
         store == room.transcriptMap
         after == room'.transcriptMap
         untouched(k) == k \in DOMAIN store /\ after[k] = store[k]
         IsLiveKey(k) == Len(k) >= 12 /\ SubSeq(k, 1, 12) = "in-progress-"
     IN TranscriptEvent(ws, event') =>
          IF last # <<>> /\ last[1][2].text # ""
          THEN LET key == "in-progress-" \o NumberToString(last[1][1]) IN
               /\ key \in DOMAIN after
               /\ after[key].id = key
               /\ after[key].text = last[1][2].text
               /\ after[key].timestamp = last[1][1]
               /\ after[key].completed = FALSE
               /\ after[key].translations = [def |-> TRUE, map |-> EmptyMap]
               /\ \A k \in DOMAIN after : (IsLiveKey(k) /\ k # key) => untouched(k)
          ELSE \A k \in DOMAIN after : IsLiveKey(k) => untouched(k)]_vars

\* The store holds an in-progress entry, and the event just handled carried a
\* last_segments whose first entry has no text, for which it holds no entry.
C31_Witness ==
  /\ event.kind = "message" /\ event.msg.last_segments = LiveBlank
  /\ "in-progress-4.5" \notin DOMAIN room.transcriptMap
  /\ "in-progress-4" \in DOMAIN room.transcriptMap
  /\ "in-progress-3" \in DOMAIN room.transcriptMap

\* C32: a transcript event appends to the translation log one entry for each
\* translation id of the message not seen before as a translation id, and
\* nothing else, whatever segment ids and timestamps have been seen; the
\* segment log likewise grows by the segment ids not seen before as segment
\* ids, whatever translation ids have been seen; the two sets of seen ids
\* grow by the ids of their own kind only.
C32_TranslationIdsApart ==
  [][LET m == event'.msg
         fresh == {m.multilingual[i].id : i \in 1..Len(m.multilingual)}
                    \ ws.processedTranslationIds
         FirstTranslationWithId(x) ==
           m.multilingual[CHOOSE i \in 1..Len(m.multilingual) :
                             /\ m.multilingual[i].id = x
                             /\ \A j \in 1..(i-1) : m.multilingual[j].id # x]
         n == Len(ws.multilingualTranscript)
     IN TranscriptEvent(ws, event') =>
          /\ Len(ws'.multilingualTranscript) = n + Cardinality(fresh)
          /\ \A i \in 1..n : ws'.multilingualTranscript[i] = ws.multilingualTranscript[i]
          /\ \A x \in fresh : \E i \in (n+1)..Len(ws'.multilingualTranscript) :
                ws'.multilingualTranscript[i] =
                  <<FirstTranslationWithId(x).timestamp,
                    FirstTranslationWithId(x).translations>>
          /\ ws'.processedTranslationIds = ws.processedTranslationIds \cup fresh
          /\ Len(ws'.transcript) = Len(ws.transcript) + Cardinality(NewIds(ws, m))
          /\ ws'.processedTranscriptIds = ws.processedTranscriptIds \cup NewIds(ws, m)]_vars

\* The event just handled carried only the translation entry of id 1 and
\* timestamp 6 when a segment of id 1 and timestamp 6 was already logged, and
\* the entry is the last of the translation log; the translation id 2 has been
\* seen and the segment id 2 has not.
C32_Witness ==
  /\ event.kind = "message"
  /\ event.msg.recent_segments = <<>>
  /\ \E t \in Range(event.msg.multilingual) : t.id = 1
  /\ ws.processedTranscriptIds = {1, 3}
  /\ ws.processedTranslationIds = {1, 2, 3}
  /\ Len(ws.multilingualTranscript) = 3
  /\ ws.multilingualTranscript[3][1] = 6
  /\ ws.transcript[1][1] = 6
  /\ ws.multilingualTranscript[1][1] = 7

\* C33: when the segment handed last to onTranscription has an id that is not
\* a number, the global advancing identifier is that id, whatever it was
\* before the call.
C33_NonNumericIdReplaces ==
  \A d \in Range(room.latestTranscriptData) :
     ~IsNumeric(d.id) => room.globalTranscriptId = d.id

\* The last recomputation emitted the finalized segment of id 7, the last of
\* the log, and then the in-progress segment: the identifier was a number
\* when the id in-progress-3 arrived, and is in-progress-3 now.
C33_Witness ==
  /\ ws.transcript # <<>>
  /\ ws.transcript[Len(ws.transcript)][2].uid = "7"
  /\ "7" \in DOMAIN room.transcriptMap
  /\ ws.lastSegment = Live6
  /\ room.latestTranscriptData # <<>>
  /\ room.latestTranscriptData[1].id = "in-progress-3"
  /\ room.globalTranscriptId = "in-progress-3"

\* The step just taken reported the status error as a failure within the
\* retry budget (fewer than three in a row), and the sockets the model allows
\* are not used up.
ErrorWithinBudget ==
  /\ "error" \in Range(reported)
  /\ errorStreak < MaxAttempts
  /\ ConstructorThrows(config) \/ Len(sockets) < MaxConnects

\* C34: whenever the status error is reported within the retry budget, a
\* retry timeout eventually calls connect(), with no action of the user
\* needed.
C34_ErrorLeadsToRetry ==
  ErrorWithinBudget ~>
    (event.kind = "timer" /\ reported # <<>> /\ reported[1] = "connecting")

\* A socket has failed within the budget and the retry has not yet run.
C34_Witness ==
  /\ ErrorWithinBudget
  /\ event.kind = "fail"
  /\ timers > 0

\* C35: an open, message, error or close event of a socket that a later
\* connect() has replaced reports no status and leaves the logs and the
\* live-segment pointer of the manager as they were.
C35_SupersededSocketIsInert ==
  [][(/\ event'.kind \in {"open", "message", "fail", "close"}
      /\ ws.socket # 0
      /\ event'.socket < ws.socket)
       => /\ reported' = <<>>
          /\ ws'.transcript = ws.transcript
          /\ ws'.multilingualTranscript = ws.multilingualTranscript
          /\ ws'.lastSegment = ws.lastSegment]_vars

\* C36: at most one socket is connecting or open at any time, and a retry
\* timeout that expires when the status is connected creates no socket.
C36_OneLiveSocket ==
  [][/\ Cardinality({i \in 1..Len(sockets') :
                       sockets'[i].readyState \in {"CONNECTING", "OPEN"}}) <= 1
     /\ (event'.kind = "timer" /\ room.status = "connected") => sockets' = sockets]_vars

\* C37: once the room has been left or the page unmounted, no socket is
\* created any more and no status connecting is reported: a retry timeout
\* that was pending does not call connect().
C37_NoConnectAfterTeardown ==
  [][(phase \in {"leaving", "left"}) =>
       (Len(sockets') = Len(sockets) /\ "connecting" \notin Range(reported'))]_vars

\* C38: an accepted message is handled by the first of the branches status,
\* DISCONNECT, SERVER_READY, language detection that matches and by no other
\* of them; then its summary and transcript are not processed: the summaries,
\* the logs, the seen ids, the live-segment pointer, the available languages
\* and the store stay as they were; when none matches, the summary is taken
\* and the transcript is processed.
C38_OneBranchPerMessage ==
  [][LET m == event'.msg
         b == CASE m.status # "" -> "status"
                [] m.message = "DISCONNECT" -> "disconnect"
                [] m.message = "SERVER_READY" -> "ready"
                [] m.language # "" /\ m.language_prob # 0 -> "language"
                [] OTHER -> "none"
     IN (event'.kind = "message" /\ m.frame = "json" /\ ~IdentityMismatch(ws, m)) =>
          /\ reported' = CASE b = "status" /\ m.status = "WAIT" -> <<"waiting">>
                           [] b = "status" /\ m.status = "ERROR" -> <<"error">>
                           [] b = "disconnect" -> <<"disconnected">>
                           [] b = "ready" -> <<"connected">>
                           [] OTHER -> <<>>
          /\ ws'.serverBackend = IF b = "ready" THEN m.backend ELSE ws.serverBackend
          /\ room'.detectedLanguage =
               IF b = "language" THEN m.language ELSE room.detectedLanguage
          /\ b # "none" =>
               /\ ws'.meetingSummary = ws.meetingSummary
               /\ room'.meetingSummary = room.meetingSummary
               /\ ws'.transcript = ws.transcript
               /\ ws'.multilingualTranscript = ws.multilingualTranscript
               /\ ws'.processedTranscriptIds = ws.processedTranscriptIds
               /\ ws'.processedTranslationIds = ws.processedTranslationIds
               /\ ws'.lastSegment = ws.lastSegment
               /\ ws'.availableLanguages = ws.availableLanguages
               /\ room'.availableLanguages = room.availableLanguages
               /\ room'.transcriptMap = room.transcriptMap
          /\ b = "none" =>
               /\ m.hasSummary =>
                    (ws'.meetingSummary = m.summary /\ room'.meetingSummary = m.summary)
               /\ m.hasTranscript =>
                    /\ ws'.lastSegment = m.last_segments
                    /\ ws'.availableLanguages = m.available_languages
                    /\ room'.availableLanguages = m.available_languages
                    /\ \A i \in 1..Len(m.recent_segments) :
                          m.recent_segments[i].id \in ws'.processedTranscriptIds
                    /\ \A i \in 1..Len(m.multilingual) :
                          m.multilingual[i].id \in ws'.processedTranslationIds
                    /\ \A d \in Range(LiveSegment(m.last_segments)) :
                          d.id \in DOMAIN room'.transcriptMap]_vars

\* A message with a status, a transcript and a summary has just been handled
\* by a manager that had processed neither a transcript nor a summary, and
\* still has not.
C38_Witness ==
  /\ event.kind = "message"
  /\ event.msg = [FullPayload EXCEPT !.status = "ERROR"]
  /\ room.status = "error"
  /\ ws.transcript = <<>> /\ ws.lastSegment = <<>> /\ ws.meetingSummary = ""
  /\ room.transcriptMap = EmptyMap

\* disconnect() has been called on an open socket, whose close event is still
\* to come: the socket is closing and the last thing sent on it is the
\* disconnect notice.
DisconnectPending ==
  /\ event.kind \in {"leave", "unmount"}
  /\ \E i \in 1..Len(sockets) :
        /\ sockets[i].readyState = "CLOSING"
        /\ sockets[i].sent # <<>>
        /\ sockets[i].sent[Len(sockets[i].sent)].type = "disconnect"

\* C39: disconnect() called with an open socket reports no status and leaves
\* the status, the logs and the live-segment pointer as they are; it sends
\* the disconnect notice, starts closing the socket and lets go of it; once
\* the close event is delivered the status disconnected is reported and the
\* logs and the live-segment pointer are empty.
C39_DisconnectClearsOnClose ==
  /\ [][(event'.kind \in {"leave", "unmount"} /\ SocketIsOpen(ws, sockets)) =>
          /\ reported' = <<>>
          /\ room'.status = room.status
          /\ ws'.transcript = ws.transcript
          /\ ws'.multilingualTranscript = ws.multilingualTranscript
          /\ ws'.lastSegment = ws.lastSegment
          /\ ws'.socket = 0
          /\ sockets'[ws.socket].readyState = "CLOSING"
          /\ sockets'[ws.socket].sent = Append(sockets[ws.socket].sent, DisconnectNotice(ws))]_vars
  /\ DisconnectPending ~>
       (/\ event.kind \in {"close", "fail"}
        /\ "disconnected" \in Range(reported)
        /\ BuffersCleared(ws))

\* The room has just been left with the status connected and a finalized
\* segment and a live segment in the manager, and the socket is closing.
C39_Witness ==
  /\ DisconnectPending
  /\ event.kind = "leave"
  /\ room.status = "connected"
  /\ ws.transcript # <<>>
  /\ ws.lastSegment # <<>>

\* C40: capture is off after every stop(), cleanup() and initialize(), and is
\* turned on only by a start() that returns true; an audioprocess event hands
\* its buffer to the callback, which sends it on the open socket, exactly
\* when the manager is recording, also when the event comes from a node the
\* manager has stopped or let go of.
C40_CallbackOnlyWhileRecording ==
  [][/\ event'.kind \in {"stop", "cleanup", "initialize"} => ~audio'.isRecording
     /\ (~audio.isRecording /\ audio'.isRecording) =>
           (event'.kind = "start" /\ event'.result = "true")
     /\ event'.kind \in {"audio", "stray audio"} =>
           /\ audio' = audio
           /\ IF audio.isRecording
              THEN /\ sockets'[ws.socket].sent = Append(sockets[ws.socket].sent, AudioFrame)
                   /\ ws'.packetCount = ws.packetCount + 1
              ELSE sockets' = sockets /\ ws' = ws]_vars

\* A buffer was delivered by the node of a built capture graph while capture
\* was off, and nothing has been sent but the handshake.
C40_Witness ==
  /\ event.kind = "audio"
  /\ Ready(audio)
  /\ ~audio.isRecording
  /\ ws.packetCount = 0
  /\ sockets[ws.socket].sent = <<Handshake(InitWs, config)>>

====
